---- MODULE Spec2Model ----
(***************************************************************************)
(* Schema Evolution Engine of the Auto Trading System:                     *)
(*   tools/schema/sheets_introspector.py   raw header rows -> raw metadata *)
(*   tools/schema/schema_generator.py      raw metadata -> master schema   *)
(*   tools/schema/diff_engine_v2.py        diff(old, new)                  *)
(*   tools/schema/schema_version_manager.py  version bump + snapshot store *)
(*   tools/schema/schema_impact_inspector.py impact report                 *)
(*   tools/schema/schema_cli.py            run_schema_pipeline             *)
(***************************************************************************)
EXTENDS Integers, Sequences, FiniteSets, TLC

VARIABLES
    canon,      \* schemas/auto_trading_system.schema.json: [exists, doc]
    history,    \* schemas/history: file name -> stored document
    reports,    \* reports/schema: file name -> report content
    now,        \* datetime.utcnow() in whole seconds
    runs,       \* number of pipeline runs started so far
    pc,         \* per runner: position inside run_schema_pipeline
    rawIn,      \* per runner: index of the raw input the sheets client returns
    newSchema,  \* per runner: new_schema (generator output)
    oldSchema,  \* per runner: old_schema (loaded canonical file or base)
    diffRes,    \* per runner: diff_result.changes
    decision,   \* per runner: VersioningResult.decision
    newVer,     \* per runner: new_version_str
    outcome,    \* per runner: how the last run of this runner ended
    prev,       \* the last finished run: its raw input and how far it got
    fn,         \* unit specifications: the function under test
    fnIn,       \* unit specifications: its input
    fnOut       \* unit specifications: its result

vars == <<canon, history, reports, now, runs, pc, rawIn, newSchema, oldSchema,
          diffRes, decision, newVer, outcome, prev, fn, fnIn, fnOut>>

pipeVars == <<canon, history, reports, now, runs, pc, rawIn, newSchema,
              oldSchema, diffRes, decision, newVer, outcome, prev>>

unitVars == <<fn, fnIn, fnOut>>

store == <<canon, history, reports>>

-----------------------------------------------------------------------------
(* Bounds of the model.                                                    *)

\* pipeline runs started in one behaviour
MaxRuns == 2
\* last value of the one-second UTC clock
MaxTime == 1
\* largest version component drawn as an input of bump
MaxComp == 2
\* longest column list drawn as an input of diff
MaxCols == 2
\* longest list of change records drawn as an input of level
MaxChanges == 3

-----------------------------------------------------------------------------
(* Python values.                                                          *)

\* None, and the value dict.get() gives for a missing key, for text fields
None == "None"

\* bool(s) of a text field: None and the empty string are falsy
Truthy(s) == s # None /\ s # ""

-----------------------------------------------------------------------------
(* ChangeLevel (diff_engine_v2.py)                                         *)

ChangeLevels == {"PATCH", "MINOR", "MAJOR", "BREAKING"}

\* an order table that ranks the levels by their names
LevelOrderByName(lv) ==
    CASE lv = "BREAKING" -> 0
      [] lv = "MAJOR" -> 1
      [] lv = "MINOR" -> 2
      [] lv = "PATCH" -> 3

\* the order table of ChangeLevel.max_level
LevelOrder(lv) ==
    CASE lv = "PATCH" -> 0
      [] lv = "MINOR" -> 1
      [] lv = "MAJOR" -> 2
      [] lv = "BREAKING" -> 3

\* ChangeLevel.max_level(levels): PATCH for the empty list, else the first
\* element of greatest order
RECURSIVE MaxLevelFrom(_, _)
MaxLevelFrom(levels, best) ==
    IF levels = << >> THEN best
    ELSE MaxLevelFrom(Tail(levels),
                      IF LevelOrder(Head(levels)) > LevelOrder(best)
                      THEN Head(levels) ELSE best)

MaxLevel(levels) ==
    IF levels = << >> THEN "PATCH" ELSE MaxLevelFrom(Tail(levels), Head(levels))

-----------------------------------------------------------------------------
(* SemanticVersion (schema_version_manager.py)                             *)
(* A version string is the sequence of its "."-separated components; a     *)
(* component is the text of an integer (num, with its value) or any other  *)
(* text (not num).  The absent version (None) is the empty sequence:       *)
(* str.split never returns an empty list.                                  *)

NumComp(n) == [num |-> TRUE, val |-> n]
BadComp == [num |-> FALSE, val |-> 0]
NoVersion == << >>

\* bool(version_str)
VersionTruthy(v) == v # NoVersion

ParseError == [ok |-> FALSE, major |-> 0, minor |-> 0, patch |-> 0]

SemVer(a, b, c) == [ok |-> TRUE, major |-> a, minor |-> b, patch |-> c]

\* a parse that pads the missing components with 0
ParsePadding(v) ==
    LET comp(i) == IF i <= Len(v) THEN v[i] ELSE NumComp(0) IN
    IF v = NoVersion \/ Len(v) > 3 THEN ParseError
    ELSE IF \E i \in 1..Len(v) : ~v[i].num THEN ParseError
    ELSE SemVer(comp(1).val, comp(2).val, comp(3).val)

\* a parse whose int() takes any text, reading 0 for text that is no number
ParseLenient(v) ==
    IF Len(v) # 3 THEN ParseError
    ELSE SemVer(v[1].val, v[2].val, v[3].val)

\* SemanticVersion.parse: split on ".", exactly three parts, int() of each;
\* any exception (None has no strip(), a wrong count, a non-integer text)
\* becomes SemanticVersionError
Parse(v) ==
    IF v = NoVersion THEN ParseError
    ELSE IF Len(v) # 3 THEN ParseError
    ELSE IF \E i \in 1..3 : ~v[i].num THEN ParseError
    ELSE SemVer(v[1].val, v[2].val, v[3].val)

\* a bump that forgets to increment the component it resets below
BumpNoIncrement(sv, level) ==
    IF level = "PATCH" THEN SemVer(sv.major, sv.minor, sv.patch + 1)
    ELSE IF level = "MINOR" THEN SemVer(sv.major, sv.minor, 0)
    ELSE IF level \in {"MAJOR", "BREAKING"} THEN SemVer(sv.major, 0, 0)
    ELSE sv

\* a bump whose MINOR branch keeps the patch component
BumpKeepsPatch(sv, level) ==
    IF level = "PATCH" THEN SemVer(sv.major, sv.minor, sv.patch + 1)
    ELSE IF level = "MINOR" THEN SemVer(sv.major, sv.minor + 1, sv.patch)
    ELSE IF level \in {"MAJOR", "BREAKING"} THEN SemVer(sv.major + 1, 0, 0)
    ELSE sv

\* SemanticVersion.bump
Bump(sv, level) ==
    IF level = "PATCH" THEN SemVer(sv.major, sv.minor, sv.patch + 1)
    ELSE IF level = "MINOR" THEN SemVer(sv.major, sv.minor + 1, 0)
    ELSE IF level \in {"MAJOR", "BREAKING"} THEN SemVer(sv.major + 1, 0, 0)
    ELSE sv

\* SemanticVersion.__str__
VersionStr(sv) == <<NumComp(sv.major), NumComp(sv.minor), NumComp(sv.patch)>>

\* lexicographic order on (major, minor, patch)
VerLess(a, b) ==
    \/ a.major < b.major
    \/ a.major = b.major /\ a.minor < b.minor
    \/ a.major = b.major /\ a.minor = b.minor /\ a.patch < b.patch

-----------------------------------------------------------------------------
(* Schema documents.                                                       *)
(* ColumnDef: col, name, python_key, type, and the secondary metadata      *)
(* description / note / label (None when the key is missing).              *)
(* SheetDef: name, type, row_start, columns (a list), blocks.              *)
(* blocks is None (present = FALSE) or a dict, kept as its set of          *)
(* <<block, field, cell>> entries.                                         *)
(* SchemaDocument: project, version, "$schema", meta, sheets.              *)

Column(col, name, key, type) ==
    [col |-> col, name |-> name, python_key |-> key, type |-> type,
     description |-> None, note |-> None, label |-> None]

NoBlocks == [present |-> FALSE, cells |-> {}]
Blocks(cells) == [present |-> TRUE, cells |-> cells]

\* row_start missing: sheet rows are 1-based, so 0 stands for None
NoRowStart == 0

Sheet(name, type, rowStart, columns, blocks) ==
    [name |-> name, type |-> type, row_start |-> rowStart,
     columns |-> columns, blocks |-> blocks]

NoSheets == [n \in {} |-> Sheet("", "", NoRowStart, << >>, NoBlocks)]

Doc(project, version, sheets) ==
    [project |-> project, version |-> version, schema |-> None,
     meta |-> None, sheets |-> sheets]

WithVersion(doc, v) == [doc EXCEPT !.version = v]

-----------------------------------------------------------------------------
(* Python's sorted() on strings orders by code point.  StrOrder lists the  *)
(* strings the model sorts (sheet names and column keys) in that order.    *)

StrOrder ==
    <<"A", "B", "C", "D", "Misc", "Position", "Qty", "Sector", "Ticker",
      "col_a", "col_b", "col_c", "col_d", "qty", "sector", "ticker">>

StrRank(s) == CHOOSE i \in 1..Len(StrOrder) : StrOrder[i] = s

RECURSIVE SortStrings(_)
SortStrings(S) ==
    IF S = {} THEN << >>
    ELSE LET m == CHOOSE x \in S : \A y \in S : StrRank(x) <= StrRank(y)
         IN  <<m>> \o SortStrings(S \ {m})

\* the concatenation of f(k) for k along the list keys
RECURSIVE Flatten(_)
Flatten(lists) ==
    IF Len(lists) = 0 THEN << >> ELSE Head(lists) \o Flatten(Tail(lists))

ConcatMap(keys, f(_)) == Flatten([i \in 1..Len(keys) |-> f(keys[i])])

-----------------------------------------------------------------------------
(* SchemaDiffEngine (diff_engine_v2.py)                                    *)
(* A SchemaChange is kept as its change_type, level and path; the path is  *)
(* the list of the pieces the f-string joins.  message, old_value and      *)
(* new_value are functions of the same inputs and are not kept.            *)

Change(ct, lv, path) == [change_type |-> ct, level |-> lv, path |-> path]

\* SchemaDiffResult.is_empty
IsEmpty(changes) == Len(changes) = 0

\* SchemaDiffResult.level
Level(changes) ==
    IF Len(changes) = 0 THEN "PATCH"
    ELSE MaxLevel([i \in 1..Len(changes) |-> changes[i].level])

\* SchemaDiffEngine.METADATA_KEYS, in one iteration order of the set
METADATA_KEYS == <<"version", "project", "$schema", "meta">>

\* old.get(key) != new.get(key) for a metadata key
MetadataDiffers(old, new, key) ==
    CASE key = "version" -> old.version # new.version
      [] key = "project" -> old.project # new.project
      [] key = "$schema" -> old.schema # new.schema
      [] key = "meta" -> old.meta # new.meta

\* SchemaDiffEngine._diff_metadata
DiffMetadata(old, new) ==
    LET one(key) ==
            IF MetadataDiffers(old, new, key)
            THEN <<Change("SCHEMA_METADATA_CHANGED", "PATCH", <<key>>)>>
            ELSE << >>
    IN  ConcatMap(METADATA_KEYS, one)

\* SchemaDiffEngine._extract_sheet_map: every document of the model keeps
\* its sheets under the "sheets" key
ExtractSheetMap(doc) == doc.sheets

\* a _diff_row_start that escalates to BREAKING
DiffRowStartBreaking(sheet, oldRow, newRow) ==
    IF oldRow # newRow
    THEN <<Change("ROW_START_CHANGED", "BREAKING", <<sheet, ".row_start">>)>>
    ELSE << >>

\* SchemaDiffEngine._diff_row_start
DiffRowStart(sheet, oldRow, newRow) ==
    IF oldRow # newRow
    THEN <<Change("ROW_START_CHANGED", "MAJOR", <<sheet, ".row_start">>)>>
    ELSE << >>

\* repr(col_def) of a column with no python_key, name or col
ReprOfColumn(c) == "{'type': " \o c.type \o "}"

\* a _build_column_key that prefers the column letter
BuildColumnKeyLetterFirst(c) ==
    IF Truthy(c.col) THEN c.col
    ELSE IF Truthy(c.python_key) THEN c.python_key
    ELSE IF Truthy(c.name) THEN c.name
    ELSE ReprOfColumn(c)

\* a _build_column_key that prefers the display name
BuildColumnKeyByName(c) ==
    IF Truthy(c.name) THEN c.name
    ELSE IF Truthy(c.python_key) THEN c.python_key
    ELSE IF Truthy(c.col) THEN c.col
    ELSE ReprOfColumn(c)

\* SchemaDiffEngine._build_column_key
BuildColumnKey(c) ==
    IF Truthy(c.python_key) THEN c.python_key
    ELSE IF Truthy(c.name) THEN c.name
    ELSE IF Truthy(c.col) THEN c.col
    ELSE ReprOfColumn(c)

\* the keys of SchemaDiffEngine._index_columns(columns)
ColumnKeys(columns) == {BuildColumnKey(columns[i]) : i \in 1..Len(columns)}

\* SchemaDiffEngine._index_columns: key -> (position_index, col_def); a
\* later column with the same key overwrites the earlier entry
IndexColumns(columns) ==
    [k \in ColumnKeys(columns) |->
        LET i == CHOOSE j \in 1..Len(columns) :
                    /\ BuildColumnKey(columns[j]) = k
                    /\ \A m \in 1..Len(columns) :
                           BuildColumnKey(columns[m]) = k => m <= j
        IN  [pos |-> i - 1, def |-> columns[i]]]

\* the meta_keys set of _diff_columns, in one iteration order
ColumnMetaKeys == <<"description", "note", "label">>

ColumnMeta(c, metaKey) ==
    CASE metaKey = "description" -> c.description
      [] metaKey = "note" -> c.note
      [] metaKey = "label" -> c.label

\* a _diff_columns that reports a moved and retyped column as retyped only
DiffCommonColumnMerged(sheet, key, o, n) ==
    LET base == <<sheet, ".columns[", key, "]">>
        meta(mk) ==
            IF ColumnMeta(o.def, mk) # ColumnMeta(n.def, mk)
            THEN <<Change("COLUMN_META_CHANGED", "PATCH", base \o <<".", mk>>)>>
            ELSE << >>
    IN  (IF o.def.type # n.def.type
         THEN <<Change("COLUMN_TYPE_CHANGED", "MAJOR", base \o <<".type">>)>>
         ELSE IF o.pos # n.pos
         THEN <<Change("COLUMN_POSITION_CHANGED", "MINOR", base)>>
         ELSE << >>)
        \o ConcatMap(ColumnMetaKeys, meta)

\* a _diff_columns that rates a type change like a position change
DiffCommonColumnTypeMinor(sheet, key, o, n) ==
    LET base == <<sheet, ".columns[", key, "]">>
        meta(mk) ==
            IF ColumnMeta(o.def, mk) # ColumnMeta(n.def, mk)
            THEN <<Change("COLUMN_META_CHANGED", "PATCH", base \o <<".", mk>>)>>
            ELSE << >>
    IN  (IF o.pos # n.pos
         THEN <<Change("COLUMN_POSITION_CHANGED", "MINOR", base)>>
         ELSE << >>)
        \o
        (IF o.def.type # n.def.type
         THEN <<Change("COLUMN_TYPE_CHANGED", "MINOR", base \o <<".type">>)>>
         ELSE << >>)
        \o ConcatMap(ColumnMetaKeys, meta)

\* _diff_columns, the part for one column present in both lists
DiffCommonColumn(sheet, key, o, n) ==
    LET base == <<sheet, ".columns[", key, "]">>
        meta(mk) ==
            IF ColumnMeta(o.def, mk) # ColumnMeta(n.def, mk)
            THEN <<Change("COLUMN_META_CHANGED", "PATCH", base \o <<".", mk>>)>>
            ELSE << >>
    IN  (IF o.pos # n.pos
         THEN <<Change("COLUMN_POSITION_CHANGED", "MINOR", base)>>
         ELSE << >>)
        \o
        (IF o.def.type # n.def.type
         THEN <<Change("COLUMN_TYPE_CHANGED", "MAJOR", base \o <<".type">>)>>
         ELSE << >>)
        \o ConcatMap(ColumnMetaKeys, meta)

\* SchemaDiffEngine._diff_columns
DiffColumns(sheet, oldColumns, newColumns) ==
    LET oldIndexed == IndexColumns(oldColumns)
        newIndexed == IndexColumns(newColumns)
        oldKeys == DOMAIN oldIndexed
        newKeys == DOMAIN newIndexed
        removed(k) ==
            <<Change("COLUMN_REMOVED", "MAJOR", <<sheet, ".columns[", k, "]">>)>>
        added(k) ==
            <<Change("COLUMN_ADDED", "MINOR", <<sheet, ".columns[", k, "]">>)>>
        common(k) == DiffCommonColumn(sheet, k, oldIndexed[k], newIndexed[k])
    IN  ConcatMap(SortStrings(oldKeys \ newKeys), removed)
        \o ConcatMap(SortStrings(newKeys \ oldKeys), added)
        \o ConcatMap(SortStrings(oldKeys \cap newKeys), common)

\* a _diff_blocks that sees no change when one side has no blocks
DiffBlocksIgnoresMissing(sheet, oldBlocks, newBlocks) ==
    IF ~oldBlocks.present \/ ~newBlocks.present THEN << >>
    ELSE IF oldBlocks # newBlocks
    THEN <<Change("BLOCKS_CHANGED", "MINOR", <<sheet, ".blocks">>)>>
    ELSE << >>

\* a _diff_blocks that lost its equality test
DiffBlocksAlways(sheet, oldBlocks, newBlocks) ==
    IF ~oldBlocks.present /\ ~newBlocks.present THEN << >>
    ELSE <<Change("BLOCKS_CHANGED", "MINOR", <<sheet, ".blocks">>)>>

\* SchemaDiffEngine._diff_blocks
DiffBlocks(sheet, oldBlocks, newBlocks) ==
    IF ~oldBlocks.present /\ ~newBlocks.present THEN << >>
    ELSE IF oldBlocks # newBlocks
    THEN <<Change("BLOCKS_CHANGED", "MINOR", <<sheet, ".blocks">>)>>
    ELSE << >>

\* a _diff_sheets that also descends into the sheets it reports as added
DiffSheetsDescending(oldSheets, newSheets) ==
    LET oldNames == DOMAIN oldSheets
        newNames == DOMAIN newSheets
        removed(s) == <<Change("SHEET_REMOVED", "MAJOR", <<s>>)>>
        added(s) ==
            <<Change("SHEET_ADDED", "MINOR", <<s>>)>>
            \o DiffRowStart(s, NoRowStart, newSheets[s].row_start)
            \o DiffColumns(s, << >>, newSheets[s].columns)
        common(s) ==
            DiffRowStart(s, oldSheets[s].row_start, newSheets[s].row_start)
            \o DiffColumns(s, oldSheets[s].columns, newSheets[s].columns)
            \o DiffBlocks(s, oldSheets[s].blocks, newSheets[s].blocks)
    IN  ConcatMap(SortStrings(oldNames \ newNames), removed)
        \o ConcatMap(SortStrings(newNames \ oldNames), added)
        \o ConcatMap(SortStrings(oldNames \cap newNames), common)

\* a _diff_sheets that does not report the sheets that are gone
DiffSheetsNoRemoved(oldSheets, newSheets) ==
    LET oldNames == DOMAIN oldSheets
        newNames == DOMAIN newSheets
        added(s) == <<Change("SHEET_ADDED", "MINOR", <<s>>)>>
        common(s) ==
            DiffRowStart(s, oldSheets[s].row_start, newSheets[s].row_start)
            \o DiffColumns(s, oldSheets[s].columns, newSheets[s].columns)
            \o DiffBlocks(s, oldSheets[s].blocks, newSheets[s].blocks)
    IN  ConcatMap(SortStrings(newNames \ oldNames), added)
        \o ConcatMap(SortStrings(oldNames \cap newNames), common)

\* SchemaDiffEngine._diff_sheets
DiffSheets(oldSheets, newSheets) ==
    LET oldNames == DOMAIN oldSheets
        newNames == DOMAIN newSheets
        removed(s) == <<Change("SHEET_REMOVED", "MAJOR", <<s>>)>>
        added(s) == <<Change("SHEET_ADDED", "MINOR", <<s>>)>>
        common(s) ==
            DiffRowStart(s, oldSheets[s].row_start, newSheets[s].row_start)
            \o DiffColumns(s, oldSheets[s].columns, newSheets[s].columns)
            \o DiffBlocks(s, oldSheets[s].blocks, newSheets[s].blocks)
    IN  ConcatMap(SortStrings(oldNames \ newNames), removed)
        \o ConcatMap(SortStrings(newNames \ oldNames), added)
        \o ConcatMap(SortStrings(oldNames \cap newNames), common)

\* SchemaDiffEngine.diff
Diff(old, new) ==
    DiffMetadata(old, new)
    \o DiffSheets(ExtractSheetMap(old), ExtractSheetMap(new))

-----------------------------------------------------------------------------
(* SheetsIntrospector (sheets_introspector.py)                             *)
(* A raw sheet is what the sheets client returns for one SheetConfig: the  *)
(* data_start_row_hint and the header row, each header cell with the type  *)
(* _infer_type draws from that column's sample rows.                       *)

Alphabet ==
    <<"A", "B", "C", "D", "E", "F", "G", "H", "I", "J", "K", "L", "M",
      "N", "O", "P", "Q", "R", "S", "T", "U", "V", "W", "X", "Y", "Z">>

LowerAlphabet ==
    <<"a", "b", "c", "d", "e", "f", "g", "h", "i", "j", "k", "l", "m",
      "n", "o", "p", "q", "r", "s", "t", "u", "v", "w", "x", "y", "z">>

\* SheetsIntrospector._index_to_col_letter, over the given alphabet
RECURSIVE ColLetterOver(_, _)
ColLetterOver(alphabet, index) ==
    LET i == index \div 26
        rem == index % 26
    IN  IF i = 0 THEN alphabet[rem + 1]
        ELSE ColLetterOver(alphabet, i - 1) \o alphabet[rem + 1]

IndexToColLetter(index) == ColLetterOver(Alphabet, index)

\* the header texts of the model and their normal form: for a header of
\* letters only, _to_python_key's substitutions leave text.lower()
HeaderTexts == {"Ticker", "Qty", "qty", "Sector", ""}

LowerOf(text) ==
    CASE text = "Ticker" -> "ticker"
      [] text = "Qty" -> "qty"
      [] text = "qty" -> "qty"
      [] text = "Sector" -> "sector"
      [] text = "" -> ""

\* SheetsIntrospector._to_python_key
ToPythonKey(header, fallback) ==
    IF header = "" THEN fallback
    ELSE IF LowerOf(header) = "" THEN fallback ELSE LowerOf(header)

\* SheetsIntrospector._detect_last_header_col_index, as a 1-based index
\* (0 when every header cell is empty)
DetectLastHeaderCol(header) ==
    IF \A i \in 1..Len(header) : header[i].text = "" THEN 0
    ELSE CHOOSE i \in 1..Len(header) :
            /\ header[i].text # ""
            /\ \A j \in 1..Len(header) : header[j].text # "" => j <= i

\* SheetsIntrospector._introspect_single_sheet: SheetsIntrospectorError for
\* an empty header row, else the RawSheetMeta
IntrospectSingleSheet(name, raw) ==
    LET last == DetectLastHeaderCol(raw.header)
        column(i) ==
            Column(IndexToColLetter(i - 1),
                   raw.header[i].text,
                   ToPythonKey(raw.header[i].text,
                               "col_" \o ColLetterOver(LowerAlphabet, i - 1)),
                   raw.header[i].type)
    IN  IF Len(raw.header) = 0 \/ last = 0
        THEN [ok |-> FALSE, name |-> name, row_start |-> NoRowStart,
              columns |-> << >>]
        ELSE [ok |-> TRUE, name |-> name, row_start |-> raw.row_start,
              columns |-> [i \in 1..last |-> column(i)]]

\* SheetsIntrospector.introspect raises when one sheet does
IntrospectFails(raw) ==
    \E n \in DOMAIN raw : ~IntrospectSingleSheet(n, raw[n]).ok

-----------------------------------------------------------------------------
(* SchemaGenerator (schema_generator.py), with GeneratorConfig()           *)

ProjectName == "auto_trading_system"

\* the "0.0.0" the generator stamps on every schema it makes
ZeroVersion == <<NumComp(0), NumComp(0), NumComp(0)>>

\* SchemaGenerator._generate_single_sheet (no blocks_mapping is configured)
GenerateSingleSheet(meta) ==
    Sheet(meta.name, "table", meta.row_start, meta.columns, NoBlocks)

\* SchemaGenerator.generate applied to SheetsIntrospector.introspect(raw)
Generate(raw) ==
    Doc(ProjectName, ZeroVersion,
        [n \in DOMAIN raw |->
            GenerateSingleSheet(IntrospectSingleSheet(n, raw[n]))])

-----------------------------------------------------------------------------
(* SchemaValidator (tools/schema/schema_validator.py is not in the source  *)
(* tree; its contract is the one its test and the design state).           *)

\* two columns of one sheet with the same python_key
HasDuplicateKey(doc) ==
    \E n \in DOMAIN doc.sheets :
        LET cols == doc.sheets[n].columns
        IN  \E i, j \in 1..Len(cols) :
                i < j /\ cols[i].python_key = cols[j].python_key

\* SchemaValidator.validate raises SchemaValidationError
ValidationFails(doc) == HasDuplicateKey(doc)

-----------------------------------------------------------------------------
(* The snapshot store and the inputs of run_schema_pipeline.               *)

\* the pipeline invocations that may be in progress
Runners == {1, 2}

\* one invocation at a time: the runner of the sequential specification
SeqRunners == {1}

HeaderCell(text, type) == [text |-> text, type |-> type]

RawPosition(header) ==
    [n \in {"Position"} |-> [row_start |-> 2, header |-> header]]

\* what the sheets client may return on a run
RawInputs ==
    <<RawPosition(<<HeaderCell("Ticker", "string"), HeaderCell("Qty", "number")>>),
      RawPosition(<<HeaderCell("Ticker", "string"), HeaderCell("Qty", "number"),
                    HeaderCell("Sector", "string")>>),
      RawPosition(<<HeaderCell("Ticker", "string"), HeaderCell("Qty", "string")>>),
      RawPosition(<<HeaderCell("Qty", "number"), HeaderCell("qty", "number")>>),
      RawPosition(<<HeaderCell("", "string")>>)>>

NoRaw == 0

BlankDoc == Doc(None, NoVersion, NoSheets)

\* old_schema when the canonical file does not exist (schema_cli.py)
BaseSchema == Doc(None, ZeroVersion, NoSheets)

NoFile == [exists |-> FALSE, doc |-> BlankDoc]
File(doc) == [exists |-> TRUE, doc |-> doc]

\* the version strings a canonical file found in the store may carry
StoredVersions ==
    {ZeroVersion,
     <<NumComp(1), NumComp(2), NumComp(3)>>,
     <<NumComp(1), NumComp(2)>>,
     <<NumComp(1)>>,
     <<NumComp(1), BadComp, NumComp(0)>>,
     NoVersion}

\* the states of the canonical file a first run may find
InitialCanons ==
    {NoFile} \cup {File(WithVersion(Generate(RawInputs[1]), v)) : v \in StoredVersions}

NoFiles == [n \in {} |-> BlankDoc]

\* open(path, "w") and a complete write: creates the file or replaces it
WriteFile(dir, name, content) ==
    [n \in DOMAIN dir \cup {name} |-> IF n = name THEN content ELSE dir[n]]

\* _write_schema_history_file: "<timestamp>_v<version>.schema.json"
HistoryName(timestamp, version) == <<timestamp, version>>

\* _write_diff_summary_report: "diff_summary_<timestamp>.md"
DiffSummaryName(timestamp) == <<"diff_summary", timestamp>>

\* write_markdown_report: "impact_report_<timestamp>.md"
ImpactReportName(timestamp) == <<"impact_report", timestamp>>

\* a resolution that ignores the explicit version and reads the new schema's
ResolveIgnoresExplicit(schema, explicitVersion) ==
    IF schema.version # NoVersion THEN schema.version ELSE ZeroVersion

\* SchemaVersionManager._resolve_current_version
ResolveCurrentVersion(schema, explicitVersion) ==
    IF VersionTruthy(explicitVersion) THEN explicitVersion
    ELSE IF schema.version # NoVersion THEN schema.version
    ELSE ZeroVersion

\* the lines of the diff summary that depend on the run
DiffSummaryContent(changes, oldVersion, newVersion) ==
    [old_version |-> oldVersion, new_version |-> newVersion,
     diff_level |-> Level(changes), changes |-> changes]

\* SchemaImpactInspector.analyze, the header lines of the report
ImpactReportContent(changes) ==
    [diff_level |-> IF IsEmpty(changes) THEN "PATCH" ELSE Level(changes),
     total_changes |-> Len(changes)]

-----------------------------------------------------------------------------
(* run_schema_pipeline (schema_cli.py), one runner p                       *)

InitPipeline ==
    /\ history = NoFiles
    /\ reports = NoFiles
    /\ now = 0
    /\ runs = 0
    /\ pc = [p \in Runners |-> "idle"]
    /\ rawIn = [p \in Runners |-> NoRaw]
    /\ newSchema = [p \in Runners |-> BlankDoc]
    /\ oldSchema = [p \in Runners |-> BlankDoc]
    /\ diffRes = [p \in Runners |-> << >>]
    /\ decision = [p \in Runners |-> "none"]
    /\ newVer = [p \in Runners |-> NoVersion]
    /\ outcome = [p \in Runners |-> "none"]
    /\ prev = [raw |-> NoRaw, reached |-> FALSE]

InitUnitIdle ==
    /\ fn = "none"
    /\ fnIn = << >>
    /\ fnOut = << >>

\* the run of p ends (it returns or an exception leaves run_schema_pipeline);
\* reached: it completed, or the canonical file was written before it failed
Finish(p, how, reached) ==
    /\ pc' = [pc EXCEPT ![p] = "idle"]
    /\ outcome' = [outcome EXCEPT ![p] = how]
    /\ prev' = [raw |-> rawIn[p], reached |-> reached]

\* run_schema_pipeline is called; the sheets client will return RawInputs[r]
StartRun(p) ==
    /\ pc[p] = "idle"
    /\ runs < MaxRuns
    /\ \E r \in 1..Len(RawInputs) : rawIn' = [rawIn EXCEPT ![p] = r]
    /\ runs' = runs + 1
    /\ pc' = [pc EXCEPT ![p] = "generate"]
    /\ outcome' = [outcome EXCEPT ![p] = "running"]
    /\ newSchema' = [newSchema EXCEPT ![p] = BlankDoc]
    /\ oldSchema' = [oldSchema EXCEPT ![p] = BlankDoc]
    /\ diffRes' = [diffRes EXCEPT ![p] = << >>]
    /\ decision' = [decision EXCEPT ![p] = "none"]
    /\ newVer' = [newVer EXCEPT ![p] = NoVersion]
    /\ UNCHANGED <<canon, history, reports, now, prev, unitVars>>

\* steps 3-5 with the validation error swallowed instead of re-raised
GenerateValidateNoRaise(p) ==
    /\ pc[p] = "generate"
    /\ IF IntrospectFails(RawInputs[rawIn[p]])
       THEN /\ Finish(p, "introspect_error", FALSE)
            /\ UNCHANGED newSchema
       ELSE /\ newSchema' = [newSchema EXCEPT ![p] = Generate(RawInputs[rawIn[p]])]
            /\ pc' = [pc EXCEPT ![p] = "load"]
            /\ UNCHANGED <<outcome, prev>>
    /\ UNCHANGED <<canon, history, reports, now, runs, rawIn, oldSchema,
                   diffRes, decision, newVer, unitVars>>

\* steps 3-5: introspect, generate, validate
GenerateValidate(p) ==
    /\ pc[p] = "generate"
    /\ IF IntrospectFails(RawInputs[rawIn[p]])
       THEN /\ Finish(p, "introspect_error", FALSE)
            /\ UNCHANGED newSchema
       ELSE /\ newSchema' = [newSchema EXCEPT ![p] = Generate(RawInputs[rawIn[p]])]
            /\ IF ValidationFails(Generate(RawInputs[rawIn[p]]))
               THEN Finish(p, "validation_error", FALSE)
               ELSE /\ pc' = [pc EXCEPT ![p] = "load"]
                    /\ UNCHANGED <<outcome, prev>>
    /\ UNCHANGED <<canon, history, reports, now, runs, rawIn, oldSchema,
                   diffRes, decision, newVer, unitVars>>

\* steps 6-7 with a base schema that carries no version
LoadAndDiffBlankBase(p) ==
    /\ pc[p] = "load"
    /\ LET old == IF canon.exists THEN canon.doc ELSE BlankDoc
       IN  /\ oldSchema' = [oldSchema EXCEPT ![p] = old]
           /\ diffRes' = [diffRes EXCEPT ![p] = Diff(old, newSchema[p])]
    /\ pc' = [pc EXCEPT ![p] = "version"]
    /\ UNCHANGED <<canon, history, reports, now, runs, rawIn, newSchema,
                   decision, newVer, outcome, prev, unitVars>>

\* steps 6-7: load the canonical file (or the base schema) and diff
LoadAndDiff(p) ==
    /\ pc[p] = "load"
    /\ LET old == IF canon.exists THEN canon.doc ELSE BaseSchema
       IN  /\ oldSchema' = [oldSchema EXCEPT ![p] = old]
           /\ diffRes' = [diffRes EXCEPT ![p] = Diff(old, newSchema[p])]
    /\ pc' = [pc EXCEPT ![p] = "version"]
    /\ UNCHANGED <<canon, history, reports, now, runs, rawIn, newSchema,
                   decision, newVer, outcome, prev, unitVars>>

\* old_version_str of apply_versioning
OldVersionStr(p) == ResolveCurrentVersion(newSchema[p], oldSchema[p].version)

\* apply_versioning up to its first write: NO_CHANGE for an empty diff,
\* else parse the old version (SemanticVersionError ends the run) and bump
ApplyVersioning(p) ==
    /\ pc[p] = "version"
    /\ IF IsEmpty(diffRes[p])
       THEN /\ decision' = [decision EXCEPT ![p] = "no_change"]
            /\ newVer' = [newVer EXCEPT ![p] = oldSchema[p].version]
            /\ pc' = [pc EXCEPT ![p] = "impact"]
            /\ UNCHANGED <<outcome, prev>>
       ELSE IF ~Parse(OldVersionStr(p)).ok
       THEN /\ Finish(p, "version_error", FALSE)
            /\ UNCHANGED <<decision, newVer>>
       ELSE /\ newVer' = [newVer EXCEPT ![p] =
                   VersionStr(Bump(Parse(OldVersionStr(p)), Level(diffRes[p])))]
            /\ pc' = [pc EXCEPT ![p] = "history"]
            /\ UNCHANGED <<decision, outcome, prev>>
    /\ UNCHANGED <<canon, history, reports, now, runs, rawIn, newSchema,
                   oldSchema, diffRes, unitVars>>

\* current_schema_with_version
VersionedSchema(p) == WithVersion(newSchema[p], newVer[p])

\* apply_versioning step 4, first write: _write_schema_history_file; when
\* open() fails (OSError) nothing is written and the run ends
WriteHistory(p) ==
    /\ pc[p] = "history"
    /\ \E written \in BOOLEAN :
        IF written
        THEN /\ history' = WriteFile(history, HistoryName(now, newVer[p]),
                                     VersionedSchema(p))
             /\ pc' = [pc EXCEPT ![p] = "canon"]
             /\ UNCHANGED <<outcome, prev>>
        ELSE /\ Finish(p, "persistence_error", FALSE)
             /\ UNCHANGED history
    /\ UNCHANGED <<canon, reports, now, runs, rawIn, newSchema, oldSchema,
                   diffRes, decision, newVer, unitVars>>

\* apply_versioning step 4, second write: _write_current_schema_file; when
\* open() fails (OSError) the file stays as it was and the run ends, the
\* history copy already written
WriteCanon(p) ==
    /\ pc[p] = "canon"
    /\ \E written \in BOOLEAN :
        IF written
        THEN /\ canon' = File(VersionedSchema(p))
             /\ pc' = [pc EXCEPT ![p] = "summary"]
             /\ UNCHANGED <<outcome, prev>>
        ELSE /\ Finish(p, "persistence_error", FALSE)
             /\ UNCHANGED canon
    /\ UNCHANGED <<history, reports, now, runs, rawIn, newSchema, oldSchema,
                   diffRes, decision, newVer, unitVars>>

\* a diff-summary step that puts the old canonical file back when the
\* report cannot be written
WriteSummaryRollsBack(p) ==
    /\ pc[p] = "summary"
    /\ \E written \in BOOLEAN :
        IF written
        THEN /\ reports' = WriteFile(reports, DiffSummaryName(now),
                    DiffSummaryContent(diffRes[p], OldVersionStr(p), newVer[p]))
             /\ decision' = [decision EXCEPT ![p] = "bump"]
             /\ pc' = [pc EXCEPT ![p] = "impact"]
             /\ UNCHANGED <<outcome, prev, canon>>
        ELSE /\ Finish(p, "persistence_error", TRUE)
             /\ canon' = File(oldSchema[p])
             /\ UNCHANGED <<reports, decision>>
    /\ UNCHANGED <<history, now, runs, rawIn, newSchema, oldSchema,
                   diffRes, newVer, unitVars>>

\* apply_versioning step 5: _write_diff_summary_report; the write may fail
\* (OSError), which ends the run
WriteSummary(p) ==
    /\ pc[p] = "summary"
    /\ \E written \in BOOLEAN :
        IF written
        THEN /\ reports' = WriteFile(reports, DiffSummaryName(now),
                    DiffSummaryContent(diffRes[p], OldVersionStr(p), newVer[p]))
             /\ decision' = [decision EXCEPT ![p] = "bump"]
             /\ pc' = [pc EXCEPT ![p] = "impact"]
             /\ UNCHANGED <<outcome, prev>>
        ELSE /\ Finish(p, "persistence_error", TRUE)
             /\ UNCHANGED <<reports, decision>>
    /\ UNCHANGED <<canon, history, now, runs, rawIn, newSchema, oldSchema,
                   diffRes, newVer, unitVars>>

\* step 9: analyze and write_markdown_report; the write may fail (OSError)
WriteImpact(p) ==
    /\ pc[p] = "impact"
    /\ \E written \in BOOLEAN :
        IF written
        THEN /\ reports' = WriteFile(reports, ImpactReportName(now),
                                     ImpactReportContent(diffRes[p]))
             /\ Finish(p, "completed", TRUE)
        ELSE /\ Finish(p, "persistence_error", decision[p] = "bump")
             /\ UNCHANGED reports
    /\ UNCHANGED <<canon, history, now, runs, rawIn, newSchema, oldSchema,
                   diffRes, decision, newVer, unitVars>>

\* the UTC clock reaches the next second
Tick ==
    /\ now < MaxTime
    /\ now' = now + 1
    /\ UNCHANGED <<canon, history, reports, runs, pc, rawIn, newSchema,
                   oldSchema, diffRes, decision, newVer, outcome, prev, unitVars>>

Init ==
    /\ canon \in InitialCanons
    /\ InitPipeline
    /\ InitUnitIdle

Next ==
    \/ Tick
    \/ \E p \in SeqRunners :
        \/ StartRun(p)
        \/ GenerateValidate(p)
        \/ LoadAndDiff(p)
        \/ ApplyVersioning(p)
        \/ WriteHistory(p)
        \/ WriteCanon(p)
        \/ WriteSummary(p)
        \/ WriteImpact(p)

Spec == Init /\ [][Next]_vars

\* two invocations of run_schema_pipeline against one schema store: nothing
\* in the code locks the canonical file or the history directory, so the
\* steps of the two runs interleave freely
NextConcurrent ==
    \/ Tick
    \/ \E p \in Runners :
        \/ StartRun(p)
        \/ GenerateValidate(p)
        \/ LoadAndDiff(p)
        \/ ApplyVersioning(p)
        \/ WriteHistory(p)
        \/ WriteCanon(p)
        \/ WriteSummary(p)
        \/ WriteImpact(p)

SpecConcurrent == Init /\ [][NextConcurrent]_vars

-----------------------------------------------------------------------------
(* SemanticVersion.bump on its own: every version string of three          *)
(* components up to MaxComp, every ChangeLevel.                            *)

BumpInputs ==
    [version : {VersionStr(SemVer(a, b, c)) : a, b, c \in 0..MaxComp},
     level : ChangeLevels]

InitBump ==
    /\ canon = NoFile
    /\ InitPipeline
    /\ fn = "bump"
    /\ fnIn \in BumpInputs
    /\ fnOut = << >>

\* str(SemanticVersion.parse(version).bump(level))
ApplyBump ==
    /\ fn = "bump"
    /\ fnOut' = VersionStr(Bump(Parse(fnIn.version), fnIn.level))
    /\ fn' = "bumped"
    /\ UNCHANGED <<fnIn, pipeVars>>

SpecBump == InitBump /\ [][ApplyBump]_vars

-----------------------------------------------------------------------------
(* SchemaDiffEngine.diff on its own, over pairs of small documents.        *)

WithNote(c, text) == [c EXCEPT !.note = text]

\* the columns the documents are built from: a retyped pair, a column keyed
\* by its name and the same column with the python_key the introspector
\* derives from its header, and a pair that differs in secondary metadata
DiffColumnDefs ==
    {Column("A", "Qty", "qty", "number"),
     Column("A", "Qty", "qty", "string"),
     Column("B", "Sector", "", "string"),
     Column("B", "Sector", "sector", "string"),
     Column("C", "Ticker", "ticker", "string"),
     WithNote(Column("C", "Ticker", "ticker", "string"), "symbol")}

DiffColumnLists ==
    UNION {[1..n -> DiffColumnDefs] : n \in 0..MaxCols}

SummaryBlock == Blocks({<<"Summary", "total_equity", "B4">>})
MovedSummaryBlock == Blocks({<<"Summary", "total_equity", "B5">>})
WideSummaryBlock ==
    Blocks({<<"Summary", "total_equity", "B5">>, <<"Summary", "cash", "B6">>,
            <<"Risk", "exposure", "D2">>})

DiffPositionSheets ==
    {Sheet("Position", "table", 2, cols, NoBlocks) : cols \in DiffColumnLists}
    \cup
    {Sheet("Position", "table", 3, <<Column("A", "Qty", "qty", "number")>>, NoBlocks),
     Sheet("Position", "table", 2, <<Column("A", "Qty", "qty", "number")>>, SummaryBlock),
     Sheet("Position", "table", 2, <<Column("A", "Qty", "qty", "number")>>, MovedSummaryBlock),
     Sheet("Position", "dashboard", 2, << >>, SummaryBlock),
     Sheet("Position", "dashboard", 2, << >>, WideSummaryBlock),
     Sheet("Position", "dashboard", 2, << >>, Blocks({})),
     Sheet("Position", "dashboard", 2, <<Column("A", "Qty", "qty", "number")>>, NoBlocks),
     Sheet("Position", "table", 2, <<Column("A", "Quantity", "qty", "number")>>, NoBlocks)}

MiscSheet == Sheet("Misc", "table", 2, <<Column("A", "Qty", "qty", "number")>>, NoBlocks)

\* a column with neither display name nor python_key, known by its letter
UnnamedColumn == Column("D", "", "", "string")

\* the sheet Misc with that column in place of, or after, its own
MiscSheetsUnnamed ==
    {Sheet("Misc", "table", 2, <<UnnamedColumn>>, NoBlocks),
     Sheet("Misc", "table", 2,
           <<Column("A", "Qty", "qty", "number"), UnnamedColumn>>, NoBlocks)}

DiffSheetMaps ==
    {NoSheets, [n \in {"Misc"} |-> MiscSheet]}
    \cup {[n \in {"Misc"} |-> s] : s \in MiscSheetsUnnamed}
    \cup {[n \in {"Position"} |-> s] : s \in DiffPositionSheets}
    \cup {[n \in {"Misc", "Position"} |-> IF n = "Misc" THEN MiscSheet ELSE s] :
            s \in DiffPositionSheets}

DiffDocs ==
    {Doc(ProjectName, ZeroVersion, m) : m \in DiffSheetMaps}
    \cup
    {Doc("other_project", ZeroVersion, NoSheets),
     Doc(ProjectName, <<NumComp(1), NumComp(2), NumComp(3)>>, NoSheets),
     [Doc(ProjectName, ZeroVersion, NoSheets) EXCEPT !.schema = "ats-schema/v1"]}

InitDiff ==
    /\ canon = NoFile
    /\ InitPipeline
    /\ fn = "diff"
    /\ fnIn \in [old : DiffDocs, new : DiffDocs]
    /\ fnOut = << >>

\* SchemaDiffEngine().diff(old, new).changes
ApplyDiff ==
    /\ fn = "diff"
    /\ fnOut' = Diff(fnIn.old, fnIn.new)
    /\ fn' = "diffed"
    /\ UNCHANGED <<fnIn, pipeVars>>

SpecDiff == InitDiff /\ [][ApplyDiff]_vars

-----------------------------------------------------------------------------
(* SchemaDiffResult.level on its own, over every list of up to MaxChanges  *)
(* change records, one kind of record per level.                           *)

ChangeOfLevel(lv) ==
    CASE lv = "PATCH" -> Change("SCHEMA_METADATA_CHANGED", "PATCH", <<"project">>)
      [] lv = "MINOR" -> Change("COLUMN_ADDED", "MINOR",
                                <<"Position", ".columns[", "sector", "]">>)
      [] lv = "MAJOR" -> Change("SHEET_REMOVED", "MAJOR", <<"Misc">>)
      [] lv = "BREAKING" -> Change("UNKNOWN", "BREAKING", <<"Position">>)

LevelInputs ==
    UNION {[1..n -> {ChangeOfLevel(lv) : lv \in ChangeLevels}] : n \in 0..MaxChanges}

InitLevel ==
    /\ canon = NoFile
    /\ InitPipeline
    /\ fn = "level"
    /\ fnIn \in LevelInputs
    /\ fnOut = << >>

\* SchemaDiffResult(changes).level
ApplyLevel ==
    /\ fn = "level"
    /\ fnOut' = Level(fnIn)
    /\ fn' = "levelled"
    /\ UNCHANGED <<fnIn, pipeVars>>

SpecLevel == InitLevel /\ [][ApplyLevel]_vars

-----------------------------------------------------------------------------
(* SchemaImpactInspector (schema_impact_inspector.py)                      *)
(* An ImpactTarget is kept as its category (the enum's value), file_path   *)
(* (relative to project_root), reason and related_changes.  The reason is  *)
(* kept as the pieces its f-string joins: the sheet name, the sorted names *)
(* of the change types, the level and the category.                        *)

\* str.upper() and str.lower() on the sheet names and metadata keys of the
\* model
NameCases ==
    [Position |-> [upper |-> "POSITION", lower |-> "position"],
     POSITION |-> [upper |-> "POSITION", lower |-> "position"],
     DT_Report |-> [upper |-> "DT_REPORT", lower |-> "dt_report"],
     dt_report |-> [upper |-> "DT_REPORT", lower |-> "dt_report"],
     T_Ledger |-> [upper |-> "T_LEDGER", lower |-> "t_ledger"],
     Config |-> [upper |-> "CONFIG", lower |-> "config"],
     History |-> [upper |-> "HISTORY", lower |-> "history"],
     Misc |-> [upper |-> "MISC", lower |-> "misc"],
     version |-> [upper |-> "VERSION", lower |-> "version"],
     project |-> [upper |-> "PROJECT", lower |-> "project"]]

Upper(s) == NameCases[s].upper
Lower(s) == NameCases[s].lower

\* the names of the ChangeType members in the order sorted() gives them
ChangeTypeNames ==
    <<"BLOCKS_CHANGED", "COLUMN_ADDED", "COLUMN_META_CHANGED",
      "COLUMN_POSITION_CHANGED", "COLUMN_REMOVED", "COLUMN_TYPE_CHANGED",
      "ROW_START_CHANGED", "SCHEMA_METADATA_CHANGED", "SHEET_ADDED",
      "SHEET_REMOVED", "UNKNOWN">>

\* the values of the ImpactCategory members, in one iteration order of a
\* set of them
ImpactCategories ==
    <<"repository", "engine", "sheets_adapter", "dashboard", "risk",
      "strategy", "other">>

\* the subsequence of seq whose elements are in S
RECURSIVE Restrict(_, _)
Restrict(seq, S) ==
    IF Len(seq) = 0 THEN << >>
    ELSE (IF Head(seq) \in S THEN <<Head(seq)>> ELSE << >>)
         \o Restrict(Tail(seq), S)

\* {ch.change_type for ch in changes}
ChangeTypesOf(changes) == {changes[i].change_type : i \in 1..Len(changes)}

\* SchemaImpactInspector._extract_sheet_name_from_path: the text before the
\* first "." or "[".  A path is kept as its pieces, the first being the
\* sheet name or metadata key, which holds neither character, and every
\* later piece starting with "." or following one that does
ExtractSheetNameFromPath(path) == Head(path)

\* the keys of _group_changes_by_sheet's dict, in insertion order
RECURSIVE SheetNamesInOrder(_, _)
SheetNamesInOrder(changes, seen) ==
    IF Len(changes) = 0 THEN << >>
    ELSE LET s == ExtractSheetNameFromPath(Head(changes).path)
         IN  IF s \in seen THEN SheetNamesInOrder(Tail(changes), seen)
             ELSE <<s>> \o SheetNamesInOrder(Tail(changes), seen \cup {s})

\* _group_changes_by_sheet(changes)[sheet]
RECURSIVE ChangesOfSheet(_, _)
ChangesOfSheet(changes, sheet) ==
    IF Len(changes) = 0 THEN << >>
    ELSE (IF ExtractSheetNameFromPath(Head(changes).path) = sheet
          THEN <<Head(changes)>> ELSE << >>)
         \o ChangesOfSheet(Tail(changes), sheet)

\* a _sheet_to_categories that compares the sheet name as it is written
SheetToCategoriesCaseSensitive(sheet, changes) ==
    (IF sheet \in {"DT_REPORT", "T_LEDGER"} THEN {"repository", "engine", "risk"}
     ELSE IF sheet = "POSITION" THEN {"repository", "engine", "risk", "dashboard"}
     ELSE {"sheets_adapter"}
          \cup (IF "BLOCKS_CHANGED" \in ChangeTypesOf(changes)
                THEN {"dashboard"} ELSE {}))
    \cup (IF ChangeTypesOf(changes)
                \subseteq {"SCHEMA_METADATA_CHANGED", "COLUMN_META_CHANGED"}
          THEN {"other"} ELSE {})

\* SchemaImpactInspector._sheet_to_categories
SheetToCategories(sheet, changes) ==
    LET u == Upper(sheet)
        byName ==
            IF u = "CONFIG" THEN {"engine", "risk", "strategy"}
            ELSE IF u \in {"DT_REPORT", "T_LEDGER"}
                 THEN {"repository", "engine", "risk"}
            ELSE IF u = "HISTORY" THEN {"repository", "risk", "dashboard"}
            ELSE IF u = "POSITION"
                 THEN {"repository", "engine", "risk", "dashboard"}
            ELSE IF u \in {"STRATEGY_PERFORMANCE", "STRATEGY_STATS"}
                 THEN {"repository", "strategy", "dashboard"}
            ELSE IF u \in {"R_DASH", "RISK_MONITOR", "RISK_DASHBOARD"}
                 THEN {"risk", "dashboard"}
            ELSE {"sheets_adapter"}
                 \cup (IF "BLOCKS_CHANGED" \in ChangeTypesOf(changes)
                       THEN {"dashboard"} ELSE {})
    IN  byName
        \cup (IF ChangeTypesOf(changes)
                    \subseteq {"SCHEMA_METADATA_CHANGED", "COLUMN_META_CHANGED"}
              THEN {"other"} ELSE {})

\* SchemaImpactInspector._category_to_files; no category yields the same
\* path twice, so the final de-duplication removes nothing
CategoryToFiles(sheet, category) ==
    LET l == Lower(sheet)
    IN  CASE category = "repository" ->
               IF l \in {"dt_report", "t_ledger"}
               THEN <<"src/sheets/dt_report_repository.py">>
               ELSE IF l = "position" THEN <<"src/sheets/position_repository.py">>
               ELSE IF l = "history" THEN <<"src/sheets/history_repository.py">>
               ELSE IF l \in {"strategy_performance", "strategy_stats"}
                    THEN <<"src/sheets/strategy_performance_repository.py">>
               ELSE <<"src/sheets/" \o l \o "_repository.py">>
          [] category = "engine" ->
               (IF l = "position"
                THEN <<"src/engine/portfolio/portfolio_engine.py">> ELSE << >>)
               \o (IF l \in {"dt_report", "t_ledger"}
                   THEN <<"src/engine/trading/trading_engine.py">> ELSE << >>)
               \o <<"src/engine/core/schema_dependent_engine.py">>
          [] category = "sheets_adapter" ->
               <<"src/sheets/google_client.py",
                 "src/sheets/" \o l \o "_adapter.py">>
          [] category = "risk" ->
               <<"src/engine/risk/risk_engine.py",
                 "src/engine/risk/portfolio_risk.py">>
          [] category = "strategy" ->
               <<"src/engine/strategy/strategy_engine.py">>
          [] category = "dashboard" ->
               <<"src/reporting/portfolio_dashboard_renderer.py",
                 "src/reporting/risk_dashboard_renderer.py">>
          [] category = "other" ->
               <<"src/core/schema_aware_context.py">>

\* SchemaImpactInspector._build_reason
BuildReason(sheet, category, changes) ==
    [sheet |-> sheet,
     types |-> Restrict(ChangeTypeNames, ChangeTypesOf(changes)),
     level |-> MaxLevel([i \in 1..Len(changes) |-> changes[i].level]),
     layer |-> category]

ImpactTarget(category, filePath, reason, relatedChanges) ==
    [category |-> category, file_path |-> filePath, reason |-> reason,
     related_changes |-> relatedChanges]

\* SchemaImpactInspector._infer_targets_for_sheet
InferTargetsForSheet(sheet, changes) ==
    LET categories == Restrict(ImpactCategories, SheetToCategories(sheet, changes))
        ofCategory(category) ==
            LET files == CategoryToFiles(sheet, category)
            IN  [i \in 1..Len(files) |->
                    ImpactTarget(category, files[i],
                                 BuildReason(sheet, category, changes), changes)]
    IN  ConcatMap(categories, ofCategory)

\* a consolidation that keeps the first target of a path as it is
ConsolidateKeepsFirst(targetsMap, target) ==
    IF \E i \in 1..Len(targetsMap) : targetsMap[i].file_path = target.file_path
    THEN targetsMap
    ELSE Append(targetsMap, target)

\* a consolidation that never merges
ConsolidateNoMerge(targetsMap, target) == Append(targetsMap, target)

\* analyze, the consolidation of one target into targets_map, a dict keyed
\* by file_path and kept here as the list of its values in insertion order:
\* a target of the same path and category takes the related changes and
\* keeps its reason; a target of the same path and another category is
\* replaced
Consolidate(targetsMap, target) ==
    LET at == {i \in 1..Len(targetsMap) : targetsMap[i].file_path = target.file_path}
    IN  IF at = {} THEN Append(targetsMap, target)
        ELSE LET i == CHOOSE j \in at : TRUE
             IN  IF targetsMap[i].category = target.category
                 THEN [targetsMap EXCEPT ![i].related_changes =
                                              @ \o target.related_changes]
                 ELSE [targetsMap EXCEPT ![i] = target]

RECURSIVE ConsolidateAll(_, _)
ConsolidateAll(targetsMap, targets) ==
    IF Len(targets) = 0 THEN targetsMap
    ELSE ConsolidateAll(Consolidate(targetsMap, Head(targets)), Tail(targets))

RECURSIVE AnalyzeSheets(_, _, _)
AnalyzeSheets(targetsMap, sheets, changes) ==
    IF Len(sheets) = 0 THEN targetsMap
    ELSE AnalyzeSheets(
             ConsolidateAll(targetsMap,
                 InferTargetsForSheet(Head(sheets),
                                      ChangesOfSheet(changes, Head(sheets)))),
             Tail(sheets), changes)

\* SchemaImpactInspector.analyze
Analyze(changes) ==
    IF IsEmpty(changes)
    THEN [diff_level |-> "PATCH", changes |-> << >>, targets |-> << >>]
    ELSE [diff_level |-> Level(changes),
          changes |-> changes,
          targets |-> AnalyzeSheets(<< >>, SheetNamesInOrder(changes, {}), changes)]

-----------------------------------------------------------------------------
(* SchemaImpactInspector.analyze on its own, over the lists of up to       *)
(* MaxChanges distinct change records on the sheets Position, DT_Report,   *)
(* T_Ledger (in two spellings), the sheet Misc that no rule names, and the *)
(* document's version.                                                     *)

ImpactChangePool ==
    {Change("COLUMN_TYPE_CHANGED", "MAJOR",
            <<"Position", ".columns[", "qty", "]", ".type">>),
     Change("ROW_START_CHANGED", "MAJOR", <<"Position", ".row_start">>),
     Change("COLUMN_META_CHANGED", "PATCH",
            <<"Position", ".columns[", "ticker", "]", ".", "note">>),
     Change("BLOCKS_CHANGED", "MINOR", <<"POSITION", ".blocks">>),
     Change("COLUMN_ADDED", "MINOR", <<"DT_Report", ".columns[", "fee", "]">>),
     Change("COLUMN_META_CHANGED", "PATCH",
            <<"dt_report", ".columns[", "fee", "]", ".", "label">>),
     Change("SHEET_REMOVED", "MAJOR", <<"T_Ledger">>),
     Change("COLUMN_ADDED", "MINOR", <<"Misc", ".columns[", "sector", "]">>),
     Change("BLOCKS_CHANGED", "MINOR", <<"Misc", ".blocks">>),
     Change("SCHEMA_METADATA_CHANGED", "PATCH", <<"version">>)}

ImpactInputs ==
    {l \in UNION {[1..n -> ImpactChangePool] : n \in 0..MaxChanges} :
        \A i, j \in 1..Len(l) : l[i] = l[j] => i = j}

InitImpact ==
    /\ canon = NoFile
    /\ InitPipeline
    /\ fn = "impact"
    /\ fnIn \in ImpactInputs
    /\ fnOut = << >>

\* SchemaImpactInspector(project_root).analyze(SchemaDiffResult(changes))
ApplyImpact ==
    /\ fn = "impact"
    /\ fnOut' = Analyze(fnIn)
    /\ fn' = "analyzed"
    /\ UNCHANGED <<fnIn, pipeVars>>

SpecImpact == InitImpact /\ [][ApplyImpact]_vars

-----------------------------------------------------------------------------
(* Column normalization (schema_diff.py).                                  *)
(* A raw column value is a dict, kept as its "name", "column", "type" and  *)
(* "datatype" entries (None when the key is missing), or a bare string.    *)
(* A raw column collection is a list of values or a dict of them, kept as  *)
(* a function from its keys.  The normalized result is a dict, kept as a   *)
(* function from its keys to [column, type]: dict equality does not look   *)
(* at the order of the keys.                                               *)

RawDict(name, column, type, datatype) ==
    [kind |-> "dict", name |-> name, column |-> column, type |-> type,
     datatype |-> datatype, text |-> None]

RawStr(text) ==
    [kind |-> "str", name |-> None, column |-> None, type |-> None,
     datatype |-> None, text |-> text]

\* d.get(key, default) for an entry kept as None when the key is missing
GetOr(value, default) == IF value = None THEN default ELSE value

\* SchemaDiffEngine.normalize_column
NormalizeColumn(colVal) ==
    IF colVal.kind = "str"
    THEN [column |-> colVal.text, type |-> "unknown"]
    ELSE IF colVal.kind = "dict"
    THEN [column |-> GetOr(colVal.column, "unknown"),
          type |-> GetOr(colVal.type, GetOr(colVal.datatype, "unknown"))]
    ELSE [column |-> "unknown", type |-> "unknown"]

\* col_item.get("name") or col_item.get("column")
ListItemName(item) == IF Truthy(item.name) THEN item.name ELSE item.column

\* normalize_columns, the list branch: an item with no name and no column
\* is skipped, a later item of the same name replaces the earlier one
RECURSIVE NormalizeList(_, _)
NormalizeList(items, normalized) ==
    IF Len(items) = 0 THEN normalized
    ELSE LET name == ListItemName(Head(items))
         IN  IF ~Truthy(name) THEN NormalizeList(Tail(items), normalized)
             ELSE NormalizeList(Tail(items),
                      [k \in DOMAIN normalized \cup {name} |->
                          IF k = name THEN NormalizeColumn(Head(items))
                          ELSE normalized[k]])

NoColumns == [k \in {} |-> [column |-> "unknown", type |-> "unknown"]]

\* SchemaDiffEngine.normalize_columns
NormalizeColumns(colsRaw) ==
    IF colsRaw.kind = "dict"
    THEN [k \in DOMAIN colsRaw.entries |-> NormalizeColumn(colsRaw.entries[k])]
    ELSE IF colsRaw.kind = "list"
    THEN NormalizeList(colsRaw.items, NoColumns)
    ELSE NoColumns

RawList(items) == [kind |-> "list", items |-> items, entries |-> NoColumns]
RawMapping(entries) == [kind |-> "dict", items |-> << >>, entries |-> entries]

-----------------------------------------------------------------------------
(* normalize_columns on its own: the same columns given as a list of       *)
(* records and as a mapping keyed by their names, the mapping holding the  *)
(* records themselves or, for a record that is only a name and a column    *)
(* letter, the bare letter.                                                *)

RawColumnRecords ==
    {RawDict(name, column, type, datatype) :
        name \in {"", "Qty", "Ticker"}, column \in {None, "A"},
        type \in {None, "number"}, datatype \in {None, "string"}}

\* the lists of up to MaxCols records with a name each, no name twice
RawColumnLists ==
    {l \in UNION {[1..n -> RawColumnRecords] : n \in 0..MaxCols} :
        \A i, j \in 1..Len(l) : l[i].name = l[j].name => i = j}

\* the mapping of the columns of the list, keyed by name
NameKeyed(items, bare) ==
    [k \in {items[i].name : i \in 1..Len(items)} |->
        LET r == items[CHOOSE i \in 1..Len(items) : items[i].name = k]
        IN  IF /\ bare
               /\ r.column # None
               /\ r.type = None
               /\ r.datatype = None
            THEN RawStr(r.column)
            ELSE r]

InitNormalize ==
    /\ canon = NoFile
    /\ InitPipeline
    /\ fn = "normalize"
    /\ \E items \in RawColumnLists, bare \in BOOLEAN :
          fnIn = [list |-> RawList(items),
                  mapping |-> RawMapping(NameKeyed(items, bare))]
    /\ fnOut = << >>

\* SchemaDiffEngine().normalize_columns(cols_raw), for both forms
ApplyNormalize ==
    /\ fn = "normalize"
    /\ fnOut' = [list |-> NormalizeColumns(fnIn.list),
                 mapping |-> NormalizeColumns(fnIn.mapping)]
    /\ fn' = "normalized"
    /\ UNCHANGED <<fnIn, pipeVars>>

SpecNormalize == InitNormalize /\ [][ApplyNormalize]_vars

-----------------------------------------------------------------------------
(* Properties.                                                             *)

\* the run of p in progress repeats the raw input of the last finished run,
\* which completed or failed after writing the canonical file
Rerun(p) == pc[p] # "idle" /\ prev.reached /\ rawIn[p] = prev.raw

AllNumeric(v) == \A i \in 1..Len(v) : v[i].num
HasNonNumeric(v) == \E i \in 1..Len(v) : ~v[i].num
ShortNumeric(v) == Len(v) \in {1, 2} /\ AllNumeric(v)
ThreeNumeric(v) == Len(v) = 3 /\ AllNumeric(v)

\* C1: a pipeline run that repeats the raw input of the previous run (which
\* completed, or failed after the canonical schema was written) computes an
\* empty diff, assigns no new version and writes no file.
C1_RerunIsIdempotent ==
    [][\A p \in Runners :
         Rerun(p) =>
            /\ store' = store
            /\ pc'[p] # "history"
            /\ (pc'[p] = "version" => IsEmpty(diffRes'[p]))]_vars

\* C2: diff(S, S) has no change record, for every schema document S.
C2_DiffOfSelfIsEmpty ==
    (fn = "diffed" /\ fnIn.old = fnIn.new) => IsEmpty(fnOut)

\* C2 witness: a document with two sheets, two columns and a block was
\* diffed against itself.
C2_Witness ==
    /\ fn = "diffed"
    /\ fnIn.old = fnIn.new
    /\ DOMAIN fnIn.old.sheets = {"Misc", "Position"}
    /\ \/ Len(fnIn.old.sheets["Position"].columns) = 2
       \/ fnIn.old.sheets["Position"].blocks.present

\* C3: a run whose diff is empty gets NO_CHANGE with new_version equal to
\* the old version, and writes no file at all: no canonical schema, no
\* history copy, no diff summary and no impact report.
C3_EmptyDiffWritesNothing ==
    [][\A p \in Runners :
         (pc[p] \in {"version", "impact"} /\ IsEmpty(diffRes[p])) =>
            /\ store' = store
            /\ (pc[p] = "version" /\ pc'[p] # "version" =>
                   /\ decision'[p] = "no_change"
                   /\ newVer'[p] = oldSchema[p].version)]_vars

\* C4: for every version and every level PATCH, MINOR, MAJOR, BREAKING the
\* bumped version is strictly greater in the (major, minor, patch) order.
C4_BumpStrictlyGreater ==
    fn = "bumped" => VerLess(Parse(fnIn.version), Parse(fnOut))

\* C4 witness: a MINOR bump of a version with a non-zero patch, the case in
\* which a component drops while the version still grows.
C4_Witness ==
    /\ fn = "bumped"
    /\ fnIn.level = "MINOR"
    /\ Parse(fnIn.version).patch > 0
    /\ Parse(fnOut).patch = 0

\* C5: the bump table: PATCH x.y.(z+1); MINOR x.(y+1).0; MAJOR and BREAKING
\* (x+1).0.0.
C5_BumpTable ==
    fn = "bumped" =>
        LET v == Parse(fnIn.version)
            w == Parse(fnOut)
        IN  /\ w.ok
            /\ fnIn.level = "PATCH" =>
                  <<w.major, w.minor, w.patch>> = <<v.major, v.minor, v.patch + 1>>
            /\ fnIn.level = "MINOR" =>
                  <<w.major, w.minor, w.patch>> = <<v.major, v.minor + 1, 0>>
            /\ fnIn.level \in {"MAJOR", "BREAKING"} =>
                  <<w.major, w.minor, w.patch>> = <<v.major + 1, 0, 0>>

\* C5 witness: 1.0.0 with a MINOR diff became 1.1.0.
C5_Witness ==
    /\ fn = "bumped"
    /\ fnIn.level = "MINOR"
    /\ fnIn.version = <<NumComp(1), NumComp(0), NumComp(0)>>
    /\ fnOut = <<NumComp(1), NumComp(1), NumComp(0)>>

C7_BadVersionFailsBeforeWrites ==
    [][\A p \in Runners :
         (/\ pc[p] = "version"
          /\ pc'[p] # "version"
          /\ HasNonNumeric(oldSchema[p].version)) =>
            /\ pc'[p] = "idle"
            /\ outcome'[p] = "version_error"
            /\ store' = store]_vars

\* C7 witness: a run that loaded a canonical file with a non-numeric
\* version component ended with the version-format error, the file in place.
C7_Witness ==
    \E p \in Runners :
        /\ pc[p] = "idle"
        /\ outcome[p] = "version_error"
        /\ HasNonNumeric(oldSchema[p].version)
        /\ canon.exists
        /\ canon.doc = oldSchema[p]

\* C8: when two columns of one sheet of the new schema have the same
\* python_key, validation fails and the run ends before any write.
C8_DuplicateKeyAbortsBeforeWrites ==
    [][\A p \in Runners :
         /\ (/\ pc[p] = "generate"
             /\ pc'[p] # "generate"
             /\ ~IntrospectFails(RawInputs[rawIn[p]])
             /\ HasDuplicateKey(Generate(RawInputs[rawIn[p]]))) =>
               /\ pc'[p] = "idle"
               /\ outcome'[p] = "validation_error"
               /\ store' = store
         /\ (pc'[p] \notin {"idle", "generate"} => ~HasDuplicateKey(newSchema'[p]))]_vars

\* C8 witness: a run whose new schema has a duplicate python_key ended with
\* the validation error while a canonical file written by an earlier run is
\* in the store.
C8_Witness ==
    \E p \in Runners :
        /\ pc[p] = "idle"
        /\ outcome[p] = "validation_error"
        /\ HasDuplicateKey(newSchema[p])
        /\ canon.exists
        /\ DOMAIN history # {}

\* C9: the canonical file changes only by a run writing the bump of the
\* version it read from the stored document (0.0.0 when there is none),
\* which is strictly greater than the stored version; and every run that
\* completes with a non-empty diff has raised the stored version.
C9_VersionOnlyMovesForward ==
    [][/\ canon' # canon =>
            \E p \in Runners :
                /\ pc[p] = "canon"
                /\ ~IsEmpty(diffRes[p])
                /\ Parse(OldVersionStr(p)).ok
                /\ canon'.doc.version =
                       VersionStr(Bump(Parse(OldVersionStr(p)), Level(diffRes[p])))
                /\ VerLess(Parse(OldVersionStr(p)), Parse(canon'.doc.version))
                /\ canon.exists =>
                       /\ canon.doc.version = oldSchema[p].version
                       /\ VersionTruthy(canon.doc.version) =>
                              VerLess(Parse(canon.doc.version), Parse(canon'.doc.version))
       /\ \A p \in Runners :
            (/\ pc'[p] = "idle"
             /\ outcome'[p] = "completed"
             /\ ~IsEmpty(diffRes'[p])) =>
                /\ canon'.exists
                /\ canon'.doc.version = newVer'[p]
                /\ VerLess(Parse(OldVersionStr(p)), Parse(canon'.doc.version))]_vars

\* C9 witness: two runs in a row raised the version of the canonical file.
C9_Witness ==
    \E p \in Runners :
        /\ pc[p] = "idle"
        /\ outcome[p] = "completed"
        /\ ~IsEmpty(diffRes[p])
        /\ Parse(oldSchema[p].version).ok
        /\ Cardinality(DOMAIN history) >= 2
        /\ VerLess(Parse(oldSchema[p].version), Parse(canon.doc.version))

\* C10: every history file, once written, stays in the history directory
\* with the content it was written with: no later step of any run replaces
\* or changes it.
C10_HistoryIsImmutable ==
    [][\A n \in DOMAIN history :
          n \in DOMAIN history' /\ history'[n] = history[n]]_vars

\* C11: when the diff-summary write or the impact-report write of a run
\* that has written its history copy and the canonical file fails, the run
\* ends with the error, and the canonical file and the history copy stay as
\* the run wrote them, at the new version.
C11_ReportFailureKeepsSnapshot ==
    [][\A p \in Runners :
         (/\ pc[p] \in {"summary", "impact"}
          /\ ~IsEmpty(diffRes[p])
          /\ pc'[p] = "idle"
          /\ outcome'[p] # "completed") =>
            /\ outcome'[p] = "persistence_error"
            /\ reports' = reports
            /\ canon' = File(VersionedSchema(p))
            /\ canon'.doc.version = newVer[p]
            /\ history' = history
            /\ \E n \in DOMAIN history' :
                  n[2] = newVer[p] /\ history'[n] = VersionedSchema(p)]_vars

\* C11 witness: a run replaced an existing canonical file, wrote its diff
\* summary and then failed on the impact report; the new version is in
\* place.
C11_Witness ==
    \E p \in Runners :
        /\ pc[p] = "idle"
        /\ outcome[p] = "persistence_error"
        /\ decision[p] = "bump"
        /\ oldSchema[p].sheets # NoSheets
        /\ canon = File(VersionedSchema(p))
        /\ canon.doc # oldSchema[p]
        /\ \E n \in DOMAIN reports : n[1] = "diff_summary"
        /\ \A n \in DOMAIN reports : n[1] # "impact_report"

\* C12: a run with a non-empty diff writes its diff summary and its impact
\* report to files of its own: the name it writes to is not the name of a
\* report left by an earlier run with a non-empty diff.
C12_OneReportPairPerRun ==
    [][\A p \in Runners :
         ~IsEmpty(diffRes[p]) =>
            /\ (pc[p] = "summary" /\ pc'[p] = "impact") =>
                  DiffSummaryName(now) \notin DOMAIN reports
            /\ (pc[p] = "impact" /\ outcome'[p] = "completed") =>
                  \/ ImpactReportName(now) \notin DOMAIN reports
                  \/ reports[ImpactReportName(now)].total_changes = 0]_vars

\* the total order PATCH < MINOR < MAJOR < BREAKING
SeverityOrder == <<"PATCH", "MINOR", "MAJOR", "BREAKING">>

SeverityRank(lv) == CHOOSE i \in 1..Len(SeverityOrder) : SeverityOrder[i] = lv

\* C13: the aggregate severity of a list of change records is PATCH for the
\* empty list, and else the severity of one of the records that no record
\* of the list exceeds in the order PATCH < MINOR < MAJOR < BREAKING.
C13_LevelIsMaximum ==
    fn = "levelled" =>
        IF Len(fnIn) = 0 THEN fnOut = "PATCH"
        ELSE /\ \E i \in 1..Len(fnIn) : fnIn[i].level = fnOut
             /\ \A i \in 1..Len(fnIn) :
                    SeverityRank(fnIn[i].level) <= SeverityRank(fnOut)

\* C13 witness: a COLUMN_ADDED at MINOR followed by a SHEET_REMOVED at MAJOR
\* and a metadata change at PATCH gave MAJOR.
C13_Witness ==
    /\ fn = "levelled"
    /\ Len(fnIn) = 3
    /\ fnIn[1].change_type = "COLUMN_ADDED"
    /\ fnIn[2].change_type = "SHEET_REMOVED"
    /\ fnIn[3].level = "PATCH"
    /\ fnOut = "MAJOR"

\* C14: the diff of a schema with no sheets against a schema with at least
\* one sheet holds exactly one SHEET_ADDED record per sheet of the new
\* schema, at the sheet's name, holds no record below a sheet (no column,
\* row-start or blocks record), and its aggregate severity is MINOR.
C14_FirstDiffIsSheetAdditions ==
    (/\ fn = "diffed"
     /\ DOMAIN fnIn.old.sheets = {}
     /\ DOMAIN fnIn.new.sheets # {}) =>
        /\ \A s \in DOMAIN fnIn.new.sheets :
              Cardinality({i \in 1..Len(fnOut) :
                              /\ fnOut[i].change_type = "SHEET_ADDED"
                              /\ fnOut[i].path = <<s>>}) = 1
        /\ \A i \in 1..Len(fnOut) :
              /\ fnOut[i].change_type \in {"SHEET_ADDED", "SCHEMA_METADATA_CHANGED"}
              /\ fnOut[i].change_type = "SHEET_ADDED" =>
                    /\ Len(fnOut[i].path) = 1
                    /\ fnOut[i].path[1] \in DOMAIN fnIn.new.sheets
                    /\ fnOut[i].level = "MINOR"
        /\ Level(fnOut) = "MINOR"

C14_Witness ==
    /\ fn = "diffed"
    /\ DOMAIN fnIn.old.sheets = {}
    /\ DOMAIN fnIn.new.sheets = {"Misc", "Position"}
    /\ Len(fnIn.new.sheets["Position"].columns) = 2
    /\ fnIn.new.sheets["Position"].row_start = 2
    /\ fnOut = <<Change("SHEET_ADDED", "MINOR", <<"Misc">>),
                 Change("SHEET_ADDED", "MINOR", <<"Position">>)>>

\* the new document is the old one with the column c appended to the
\* columns of its sheet s, every column of that sheet having its own key
AppendsColumn(old, new, s, c) ==
    /\ s \in DOMAIN old.sheets
    /\ new = [old EXCEPT !.sheets[s].columns = Append(@, c)]
    /\ \A i, j \in 1..Len(new.sheets[s].columns) :
          BuildColumnKey(new.sheets[s].columns[i])
             = BuildColumnKey(new.sheets[s].columns[j]) => i = j

V123 == <<NumComp(1), NumComp(2), NumComp(3)>>
V130 == <<NumComp(1), NumComp(3), NumComp(0)>>
V200 == <<NumComp(2), NumComp(0), NumComp(0)>>

RetypesColumn(old, new, s, i) ==
    /\ s \in DOMAIN old.sheets
    /\ i \in 1..Len(old.sheets[s].columns)
    /\ s \in DOMAIN new.sheets
    /\ i \in 1..Len(new.sheets[s].columns)
    /\ new.sheets[s].columns[i].type # old.sheets[s].columns[i].type
    /\ new = [old EXCEPT !.sheets[s].columns[i].type = new.sheets[s].columns[i].type]
    /\ \A j, k \in 1..Len(old.sheets[s].columns) :
          BuildColumnKey(old.sheets[s].columns[j])
             = BuildColumnKey(old.sheets[s].columns[k]) => j = k

\* C16: when the new schema differs from the old one only in the type of
\* one column, which keeps its position, the diff is exactly one record, of
\* kind COLUMN_TYPE_CHANGED and severity MAJOR; the aggregate severity is
\* MAJOR and 1.3.0 is bumped to 2.0.0.
C16_RetypedColumnIsMajor ==
    fn = "diffed" =>
        \A s \in DOMAIN fnIn.old.sheets :
            \A i \in 1..Len(fnIn.old.sheets[s].columns) :
                RetypesColumn(fnIn.old, fnIn.new, s, i) =>
                    /\ Len(fnOut) = 1
                    /\ fnOut[1].change_type = "COLUMN_TYPE_CHANGED"
                    /\ fnOut[1].level = "MAJOR"
                    /\ Level(fnOut) = "MAJOR"
                    /\ VersionStr(Bump(Parse(V130), Level(fnOut))) = V200

C16_Witness ==
    /\ fn = "diffed"
    /\ "Position" \in DOMAIN fnIn.old.sheets
    /\ fnIn.old.sheets["Position"].columns =
          <<Column("C", "Ticker", "ticker", "string"), Column("A", "Qty", "qty", "string")>>
    /\ RetypesColumn(fnIn.old, fnIn.new, "Position", 2)
    /\ fnIn.new.sheets["Position"].columns[2].type = "number"
    /\ fnOut = <<Change("COLUMN_TYPE_CHANGED", "MAJOR",
                        <<"Position", ".columns[", "qty", "]", ".type">>)>>

\* the sheets of the analyzed changes that the rule tables map to the
\* component path and category of the target t
SheetsMappingTo(t) ==
    {s \in {ExtractSheetNameFromPath(fnIn[i].path) : i \in 1..Len(fnIn)} :
        /\ t.category \in SheetToCategories(s, ChangesOfSheet(fnIn, s))
        /\ \E k \in 1..Len(CategoryToFiles(s, t.category)) :
              CategoryToFiles(s, t.category)[k] = t.file_path}

\* C17: in the report analyze returns no two targets have the same
\* component path and category, and each target lists, once each, exactly
\* the changes of every sheet that maps to its path and category.
C17_OneTargetPerComponent ==
    fn = "analyzed" =>
        LET targets == fnOut.targets
        IN  /\ \A i, j \in 1..Len(targets) :
                  (/\ targets[i].file_path = targets[j].file_path
                   /\ targets[i].category = targets[j].category) => i = j
            /\ \A i \in 1..Len(targets) :
                  LET rc == targets[i].related_changes
                  IN  /\ SheetsMappingTo(targets[i]) # {}
                      /\ {rc[k] : k \in 1..Len(rc)} =
                            {fnIn[k] : k \in
                                {n \in 1..Len(fnIn) :
                                    ExtractSheetNameFromPath(fnIn[n].path)
                                        \in SheetsMappingTo(targets[i])}}
                      /\ \A k, n \in 1..Len(rc) : rc[k] = rc[n] => k = n

\* the scenario of C17 beside a change on DT_Report: a type change and a
\* row-start change on Position give one target for each of the seven
\* components of Position, each listing both changes; the risk engine, which
\* DT_Report maps to as well, lists all three
C17_Witness ==
    LET typeChange == Change("COLUMN_TYPE_CHANGED", "MAJOR",
                             <<"Position", ".columns[", "qty", "]", ".type">>)
        rowChange == Change("ROW_START_CHANGED", "MAJOR", <<"Position", ".row_start">>)
        feeChange == Change("COLUMN_ADDED", "MINOR", <<"DT_Report", ".columns[", "fee", "]">>)
    IN  /\ fn = "analyzed"
        /\ fnIn = <<typeChange, rowChange, feeChange>>
        /\ Cardinality({i \in 1..Len(fnOut.targets) :
                            typeChange \in {fnOut.targets[i].related_changes[k] :
                                k \in 1..Len(fnOut.targets[i].related_changes)}}) = 7
        /\ \E i \in 1..Len(fnOut.targets) :
              /\ fnOut.targets[i].file_path = "src/sheets/position_repository.py"
              /\ fnOut.targets[i].related_changes = <<typeChange, rowChange>>
        /\ \E i \in 1..Len(fnOut.targets) :
              /\ fnOut.targets[i].file_path = "src/engine/risk/risk_engine.py"
              /\ fnOut.targets[i].related_changes = fnIn

\* C18: the reason of every target of the report, a target merged from
\* the changes of several sheets included, names exactly the distinct
\* kinds of the target's related changes and the highest of their levels.
C18_ReasonCoversRelatedChanges ==
    fn = "analyzed" =>
        \A i \in 1..Len(fnOut.targets) :
            LET t == fnOut.targets[i]
                rc == t.related_changes
            IN  /\ {t.reason.types[k] : k \in 1..Len(t.reason.types)} =
                      {rc[k].change_type : k \in 1..Len(rc)}
                /\ \E k \in 1..Len(rc) : rc[k].level = t.reason.level
                /\ \A k \in 1..Len(rc) :
                      SeverityRank(rc[k].level) <= SeverityRank(t.reason.level)

\* the changes of the analyzed list on the sheet s, and the categories of
\* the targets that list one of them
ChangesOn(s) == {fnIn[i] : i \in {n \in 1..Len(fnIn) : fnIn[n].path[1] = s}}

CategoriesSeen(s) ==
    {fnOut.targets[i].category : i \in
        {n \in 1..Len(fnOut.targets) :
            \E k \in 1..Len(fnOut.targets[n].related_changes) :
                fnOut.targets[n].related_changes[k] \in ChangesOn(s)}}

\* the categories the rule table gives a sheet by its name, the case of
\* the letters aside, and by whether one of its changes is a blocks change
CategoriesByName(s) ==
    IF s \in {"DT_Report", "dt_report", "T_Ledger"}
    THEN {"repository", "engine", "risk"}
    ELSE IF s \in {"Position", "POSITION"}
    THEN {"repository", "engine", "risk", "dashboard"}
    ELSE {"sheets_adapter"}
         \cup (IF \E c \in ChangesOn(s) : c.change_type = "BLOCKS_CHANGED"
               THEN {"dashboard"} ELSE {})

\* C19 as stated: whatever the kinds of its changes, a sheet DT_Report or
\* T_Ledger has exactly the categories repository, engine, risk; Position
\* exactly repository, engine, risk, dashboard; a sheet no rule names the
\* adapter category, with dashboard if and only if one of its changes is a
\* blocks change; names compared without regard to case.  (Stated for the
\* sheets of the document, not for its metadata keys.)
C19_CategoriesByNameOnly ==
    fn = "analyzed" =>
        \A i \in 1..Len(fnIn) :
            fnIn[i].change_type # "SCHEMA_METADATA_CHANGED" =>
                CategoriesSeen(fnIn[i].path[1]) = CategoriesByName(fnIn[i].path[1])

\* C19, amended: as above, and in addition the category other when every
\* change of the sheet is a metadata change (SCHEMA_METADATA_CHANGED or
\* COLUMN_META_CHANGED).
C19_CategoriesByNameAndMetaOnly ==
    fn = "analyzed" =>
        \A i \in 1..Len(fnIn) :
            LET s == fnIn[i].path[1]
            IN  CategoriesSeen(s) =
                    CategoriesByName(s)
                    \cup (IF \A c \in ChangesOn(s) :
                                c.change_type \in {"SCHEMA_METADATA_CHANGED",
                                                   "COLUMN_META_CHANGED"}
                          THEN {"other"} ELSE {})

C19_Witness ==
    /\ fn = "analyzed"
    /\ Len(fnIn) = 3
    /\ {fnIn[i].path[1] : i \in 1..3} = {"POSITION", "dt_report", "Misc"}
    /\ CategoriesSeen("POSITION") = {"repository", "engine", "risk", "dashboard"}
    /\ CategoriesSeen("dt_report") = {"repository", "engine", "risk", "other"}
    /\ CategoriesSeen("Misc") = {"sheets_adapter", "dashboard"}

\* C20: a run that finds no canonical schema file takes as the previous
\* schema the empty schema (no sheets) at version 0.0.0; when it completes,
\* the canonical file exists, the history directory holds at least one
\* copy and the reports directory at least one impact report, and the
\* canonical file was there before the impact report was written.
C20_FirstRunCreatesStore ==
    [][\A p \in Runners :
         /\ (pc[p] = "load" /\ pc'[p] = "version" /\ ~canon.exists) =>
               /\ oldSchema'[p].version = ZeroVersion
               /\ DOMAIN oldSchema'[p].sheets = {}
         /\ (/\ pc[p] = "impact"
             /\ oldSchema[p].project = None
             /\ outcome'[p] = "completed") =>
               /\ canon.exists
               /\ canon'.exists
               /\ canon'.doc.sheets = newSchema[p].sheets
               /\ DOMAIN history' # {}
               /\ \E n \in DOMAIN reports' : n[1] = "impact_report"
               /\ \E n \in DOMAIN reports' \ DOMAIN reports :
                     n[1] = "impact_report"]_vars

C20_Witness ==
    \E p \in Runners :
        /\ runs = 1
        /\ pc[p] = "idle"
        /\ outcome[p] = "completed"
        /\ oldSchema[p] = BaseSchema
        /\ canon = File(WithVersion(newSchema[p], <<NumComp(0), NumComp(1), NumComp(0)>>))
        /\ DOMAIN newSchema[p].sheets # {}
        /\ Cardinality(DOMAIN history) = 1
        /\ \E n \in DOMAIN reports : n[1] = "impact_report"

\* C21: for every non-empty list of changes the report of analyze has at
\* least one target, and every change of the list is among the related
\* changes of at least one target.
C21_EveryChangeHasATarget ==
    (fn = "analyzed" /\ Len(fnIn) > 0) =>
        /\ Len(fnOut.targets) >= 1
        /\ \A i \in 1..Len(fnIn) :
              \E n \in 1..Len(fnOut.targets) :
                  \E k \in 1..Len(fnOut.targets[n].related_changes) :
                      fnOut.targets[n].related_changes[k] = fnIn[i]

C21_Witness ==
    /\ fn = "analyzed"
    /\ fnIn = <<Change("SCHEMA_METADATA_CHANGED", "PATCH", <<"version">>),
                Change("ROW_START_CHANGED", "MAJOR", <<"Position", ".row_start">>),
                Change("BLOCKS_CHANGED", "MINOR", <<"POSITION", ".blocks">>)>>
    /\ Len(fnOut.targets) = 10
    /\ \E n \in 1..Len(fnOut.targets) :
          /\ fnOut.targets[n].file_path = "src/sheets/position_repository.py"
          /\ fnOut.targets[n].related_changes = <<fnIn[2], fnIn[3]>>

\* C22: the normalized columns are the same whether the columns arrive as
\* a list of records or as the mapping of the same columns keyed by name;
\* no column of the input is dropped; and every column given without a
\* type, a bare string included, has type "unknown".
C22_ListAndMappingNormalizeAlike ==
    fn = "normalized" =>
        /\ fnOut.list = fnOut.mapping
        /\ Cardinality(DOMAIN fnOut.list) = Len(fnIn.list.items)
        /\ Cardinality(DOMAIN fnOut.mapping) = Len(fnIn.list.items)
        /\ \A k \in DOMAIN fnIn.mapping.entries :
              LET r == fnIn.mapping.entries[k]
              IN  (r.kind = "str" \/ (r.type = None /\ r.datatype = None)) =>
                      /\ fnOut.mapping[k].type = "unknown"
                      /\ k \in DOMAIN fnOut.list => fnOut.list[k].type = "unknown"

\* the records of the diff of the given kind whose path is the sheet s
SheetRecords(kind, s) ==
    {i \in 1..Len(fnOut) : fnOut[i].change_type = kind /\ fnOut[i].path = <<s>>}

\* C23: the diff holds exactly one SHEET_REMOVED record, at MAJOR, for
\* each sheet only in the old schema, exactly one SHEET_ADDED record, at
\* MINOR, for each sheet only in the new schema, and no such record for a
\* sheet in both or in neither.
C23_SheetSetDifference ==
    fn = "diffed" =>
        LET oldNames == DOMAIN fnIn.old.sheets
            newNames == DOMAIN fnIn.new.sheets
        IN  /\ \A s \in oldNames \ newNames :
                  /\ Cardinality(SheetRecords("SHEET_REMOVED", s)) = 1
                  /\ SheetRecords("SHEET_ADDED", s) = {}
            /\ \A s \in newNames \ oldNames :
                  /\ Cardinality(SheetRecords("SHEET_ADDED", s)) = 1
                  /\ SheetRecords("SHEET_REMOVED", s) = {}
            /\ \A i \in 1..Len(fnOut) :
                  /\ fnOut[i].change_type = "SHEET_REMOVED" =>
                        /\ fnOut[i].level = "MAJOR"
                        /\ Len(fnOut[i].path) = 1
                        /\ fnOut[i].path[1] \in oldNames \ newNames
                  /\ fnOut[i].change_type = "SHEET_ADDED" =>
                        /\ fnOut[i].level = "MINOR"
                        /\ Len(fnOut[i].path) = 1
                        /\ fnOut[i].path[1] \in newNames \ oldNames

C23_Witness ==
    /\ fn = "diffed"
    /\ DOMAIN fnIn.old.sheets = {"Misc", "Position"}
    /\ DOMAIN fnIn.new.sheets = {"Position"}
    /\ fnIn.old.sheets["Position"] # fnIn.new.sheets["Position"]
    /\ Cardinality(SheetRecords("SHEET_REMOVED", "Misc")) = 1
    /\ Len(fnOut) >= 2

\* the key by which a column is matched: its programmatic key, else its
\* display name, else its column letter
MatchKey(c) ==
    IF c.python_key # "" THEN c.python_key
    ELSE IF c.name # "" THEN c.name
    ELSE c.col

MatchKeys(columns) == {MatchKey(columns[i]) : i \in 1..Len(columns)}

\* the records of the diff of the given kind at the column key k of sheet s
ColumnRecords(kind, s, k) ==
    {i \in 1..Len(fnOut) :
        /\ fnOut[i].change_type = kind
        /\ fnOut[i].path = <<s, ".columns[", k, "]">>}

\* C24: in a sheet of both schemas the columns are matched by programmatic
\* key, else display name, else column letter: a key only in the old list
\* gives exactly one COLUMN_REMOVED record at MAJOR, a key only in the new
\* list exactly one COLUMN_ADDED record at MINOR, a key in both neither.
C24_ColumnSetDifferenceByKey ==
    fn = "diffed" =>
        /\ \A s \in DOMAIN fnIn.old.sheets \cap DOMAIN fnIn.new.sheets :
              LET oldKeys == MatchKeys(fnIn.old.sheets[s].columns)
                  newKeys == MatchKeys(fnIn.new.sheets[s].columns)
              IN  \A k \in oldKeys \cup newKeys :
                      /\ Cardinality(ColumnRecords("COLUMN_REMOVED", s, k)) =
                            IF k \in oldKeys \ newKeys THEN 1 ELSE 0
                      /\ Cardinality(ColumnRecords("COLUMN_ADDED", s, k)) =
                            IF k \in newKeys \ oldKeys THEN 1 ELSE 0
        /\ \A i \in 1..Len(fnOut) :
              /\ fnOut[i].change_type = "COLUMN_REMOVED" =>
                    /\ fnOut[i].level = "MAJOR"
                    /\ fnOut[i].path[1] \in DOMAIN fnIn.old.sheets \cap DOMAIN fnIn.new.sheets
                    /\ fnOut[i].path[3] \in MatchKeys(fnIn.old.sheets[fnOut[i].path[1]].columns)
              /\ fnOut[i].change_type = "COLUMN_ADDED" =>
                    /\ fnOut[i].level = "MINOR"
                    /\ fnOut[i].path[1] \in DOMAIN fnIn.old.sheets \cap DOMAIN fnIn.new.sheets
                    /\ fnOut[i].path[3] \in MatchKeys(fnIn.new.sheets[fnOut[i].path[1]].columns)

\* Position loses the column known by its name and gains one matched by
\* its programmatic key
C24_Witness ==
    /\ fn = "diffed"
    /\ "Position" \in DOMAIN fnIn.old.sheets \cap DOMAIN fnIn.new.sheets
    /\ fnIn.old.sheets["Position"].columns =
          <<Column("C", "Ticker", "ticker", "string"), Column("B", "Sector", "", "string")>>
    /\ fnIn.new.sheets["Position"].columns =
          <<Column("C", "Ticker", "ticker", "string"), Column("A", "Qty", "qty", "number")>>
    /\ Cardinality(ColumnRecords("COLUMN_REMOVED", "Position", "Sector")) = 1
    /\ Cardinality(ColumnRecords("COLUMN_ADDED", "Position", "qty")) = 1
    /\ ColumnRecords("COLUMN_ADDED", "Position", "ticker") = {}
    /\ ColumnRecords("COLUMN_REMOVED", "Position", "ticker") = {}

\* every column of the list has its own key
UniqueKeys(columns) ==
    \A i, j \in 1..Len(columns) :
        MatchKey(columns[i]) = MatchKey(columns[j]) => i = j

\* the records of the diff of the given kind at the given path
RecordsAt(kind, path) ==
    {i \in 1..Len(fnOut) : fnOut[i].change_type = kind /\ fnOut[i].path = path}

\* C25: for a column in both versions of a sheet the diff holds one
\* COLUMN_POSITION_CHANGED record if its index differs and none if not,
\* one COLUMN_TYPE_CHANGED record if its type differs and none if not, each
\* whatever the other: a column moved and retyped has both records.
C25_PositionAndTypeIndependent ==
    fn = "diffed" =>
        \A s \in DOMAIN fnIn.old.sheets \cap DOMAIN fnIn.new.sheets :
            LET oldCols == fnIn.old.sheets[s].columns
                newCols == fnIn.new.sheets[s].columns
            IN  (UniqueKeys(oldCols) /\ UniqueKeys(newCols)) =>
                    \A i \in 1..Len(oldCols), j \in 1..Len(newCols) :
                        MatchKey(oldCols[i]) = MatchKey(newCols[j]) =>
                            LET base == <<s, ".columns[", MatchKey(oldCols[i]), "]">>
                            IN  /\ Cardinality(RecordsAt("COLUMN_POSITION_CHANGED", base)) =
                                      IF i # j THEN 1 ELSE 0
                                /\ Cardinality(RecordsAt("COLUMN_TYPE_CHANGED",
                                                         base \o <<".type">>)) =
                                      IF oldCols[i].type # newCols[j].type THEN 1 ELSE 0

\* Qty moves from the first to the second place and turns from number to
\* string
C25_Witness ==
    /\ fn = "diffed"
    /\ "Position" \in DOMAIN fnIn.old.sheets \cap DOMAIN fnIn.new.sheets
    /\ fnIn.old.sheets["Position"].columns =
          <<Column("A", "Qty", "qty", "number"), Column("C", "Ticker", "ticker", "string")>>
    /\ fnIn.new.sheets["Position"].columns =
          <<Column("C", "Ticker", "ticker", "string"), Column("A", "Qty", "qty", "string")>>
    /\ Cardinality(RecordsAt("COLUMN_POSITION_CHANGED",
                             <<"Position", ".columns[", "qty", "]">>)) = 1
    /\ Cardinality(RecordsAt("COLUMN_TYPE_CHANGED",
                             <<"Position", ".columns[", "qty", "]", ".type">>)) = 1
    /\ RecordsAt("COLUMN_TYPE_CHANGED",
                 <<"Position", ".columns[", "ticker", "]", ".type">>) = {}

\* C26: for each sheet of both schemas the diff holds exactly one
\* BLOCKS_CHANGED record, at MINOR, when the old and the new blocks differ,
\* in however many fields, and none when they are equal; there is no
\* blocks record for any other sheet.
C26_OneBlocksRecordPerSheet ==
    fn = "diffed" =>
        /\ \A s \in DOMAIN fnIn.old.sheets \cap DOMAIN fnIn.new.sheets :
              Cardinality(RecordsAt("BLOCKS_CHANGED", <<s, ".blocks">>)) =
                  IF fnIn.old.sheets[s].blocks # fnIn.new.sheets[s].blocks
                  THEN 1 ELSE 0
        /\ \A i \in 1..Len(fnOut) :
              fnOut[i].change_type = "BLOCKS_CHANGED" =>
                  /\ fnOut[i].level = "MINOR"
                  /\ Len(fnOut[i].path) = 2
                  /\ fnOut[i].path[2] = ".blocks"
                  /\ fnOut[i].path[1] \in DOMAIN fnIn.old.sheets \cap DOMAIN fnIn.new.sheets

\* three block fields differ between the two versions of Position
C26_Witness ==
    /\ fn = "diffed"
    /\ "Position" \in DOMAIN fnIn.old.sheets \cap DOMAIN fnIn.new.sheets
    /\ fnIn.old.sheets["Position"].blocks = SummaryBlock
    /\ fnIn.new.sheets["Position"].blocks = WideSummaryBlock
    /\ fnIn.old.sheets["Position"].type = "dashboard"
    /\ fnOut = <<Change("BLOCKS_CHANGED", "MINOR", <<"Position", ".blocks">>)>>

\* C27: the metadata step compares the project name and the schema format
\* marker: the diff holds one SCHEMA_METADATA_CHANGED record, at PATCH, for
\* each of the two whose value differs between old and new, and no
\* metadata record for any other top-level field.
C27_MetadataIsProjectAndMarker ==
    fn = "diffed" =>
        /\ Cardinality(RecordsAt("SCHEMA_METADATA_CHANGED", <<"project">>)) =
              IF fnIn.old.project # fnIn.new.project THEN 1 ELSE 0
        /\ Cardinality(RecordsAt("SCHEMA_METADATA_CHANGED", <<"$schema">>)) =
              IF fnIn.old.schema # fnIn.new.schema THEN 1 ELSE 0
        /\ \A i \in 1..Len(fnOut) :
              fnOut[i].change_type = "SCHEMA_METADATA_CHANGED" =>
                  /\ fnOut[i].level = "PATCH"
                  /\ fnOut[i].path \in {<<"project">>, <<"$schema">>}

\* the severity the classification policy gives each kind of change
SeverityOfKind ==
    [SHEET_REMOVED |-> "MAJOR", ROW_START_CHANGED |-> "MAJOR",
     COLUMN_REMOVED |-> "MAJOR", COLUMN_TYPE_CHANGED |-> "MAJOR",
     SHEET_ADDED |-> "MINOR", COLUMN_ADDED |-> "MINOR",
     COLUMN_POSITION_CHANGED |-> "MINOR", BLOCKS_CHANGED |-> "MINOR",
     SCHEMA_METADATA_CHANGED |-> "PATCH", COLUMN_META_CHANGED |-> "PATCH"]

\* C28: every record of a diff has the severity fixed by its kind (sheet
\* removed, row start, column removed, column type: MAJOR; sheet added,
\* column added, column position, blocks: MINOR; document metadata and
\* column secondary metadata: PATCH), so that no record and no aggregate
\* severity of a diff is BREAKING.
C28_SeverityFixedByKind ==
    fn = "diffed" =>
        /\ \A i \in 1..Len(fnOut) :
              /\ fnOut[i].change_type \in DOMAIN SeverityOfKind
              /\ fnOut[i].level = SeverityOfKind[fnOut[i].change_type]
              /\ fnOut[i].level # "BREAKING"
        /\ Level(fnOut) # "BREAKING"

\* a diff with a PATCH, a MINOR and two MAJOR records
C28_Witness ==
    /\ fn = "diffed"
    /\ {fnOut[i].change_type : i \in 1..Len(fnOut)} =
          {"SHEET_REMOVED", "COLUMN_TYPE_CHANGED", "COLUMN_POSITION_CHANGED",
           "COLUMN_META_CHANGED"}
    /\ Level(fnOut) = "MAJOR"

\* C29: the diff of two documents is empty only if their sheet definitions
\* are identical: the same sheet names and, sheet by sheet, the same type
\* tag, row start, ordered columns (letter, display name, programmatic key
\* and value type) and blocks.  (Stated for documents whose sheets have a
\* key of its own for every column.)
\* every sheet of the document has its own key for every column
WellKeyed(doc) == \A s \in DOMAIN doc.sheets : UniqueKeys(doc.sheets[s].columns)

C29_EmptyDiffMeansSameSheets ==
    (/\ fn = "diffed"
     /\ WellKeyed(fnIn.old)
     /\ WellKeyed(fnIn.new)
     /\ IsEmpty(fnOut)) => fnIn.old.sheets = fnIn.new.sheets

\* the version held by a file of the store, when it parses
FileVersion(f) == Parse(f.doc.version)

\* C30: when two runs against one store interleave, no step lowers the
\* version in the canonical file, and no step changes a history file while
\* the other run, past its own history write, is still in progress.
C30_InterleavedRunsKeepVersionAndHistory ==
    [][/\ (/\ canon.exists
           /\ canon'.exists
           /\ FileVersion(canon).ok
           /\ FileVersion(canon').ok) =>
              ~VerLess(FileVersion(canon'), FileVersion(canon))
       /\ \A p \in Runners : \A q \in Runners \ {p} :
            (/\ pc[p] = "history"
             /\ pc'[p] = "canon"
             /\ pc[q] \in {"canon", "summary", "impact"}) =>
                \A n \in DOMAIN history : history'[n] = history[n]]_vars

\* C30, first half on its own: no step lowers the canonical version
C30_CanonVersionNeverDecreases ==
    [][(/\ canon.exists
        /\ canon'.exists
        /\ FileVersion(canon).ok
        /\ FileVersion(canon').ok) =>
           ~VerLess(FileVersion(canon'), FileVersion(canon))]_vars

\* C30, second half on its own: a history write of one run leaves the files
\* of the run still in progress as they are
C30_NoHistoryOverwriteByOtherRun ==
    [][\A p \in Runners : \A q \in Runners \ {p} :
         (/\ pc[p] = "history"
          /\ pc'[p] = "canon"
          /\ pc[q] \in {"canon", "summary", "impact"}) =>
             \A n \in DOMAIN history : history'[n] = history[n]]_vars

====
